---- MODULE Spec2Model ----
(***************************************************************************)
(* Verification model of the EdgeMAX statistics client: the websocket      *)
(* frame codec (wsMarshal / wsUnmarshal), the subscription envelope        *)
(* (wsRequest) and the orchestration of Client.Stats: the keepalive        *)
(* goroutine, the collector goroutine and the done closure.                *)
(*                                                                         *)
(* Go strings and byte slices are sequences of byte values 0..255.         *)
(* A Go slice that may be nil is a record [nil, elems].                    *)
(***************************************************************************)
EXTENDS Integers, Sequences, FiniteSets, TLC

(***************************************************************************)
(* Bounds of the model.                                                    *)
(***************************************************************************)
\* most bytes the strings of a request drawn for the codec hold in total
MaxBytes == 2
\* longest Subscribe / Unsubscribe list drawn for the codec
MaxNames == 2
\* longest list of stat types passed to Client.Stats
MaxStats == 1
\* most entries of one received frame
MaxEntries == 2
\* longest raw buffer given to wsUnmarshal
MaxFrame == 4
\* largest value of the two bytes that vary in an address
MaxOctet == 2
\* most interfaces of one interfaces payload
MaxIfaces == 2
\* most inner entries of one export payload
MaxCells == 2

(***************************************************************************)
(* Byte-level helpers.                                                     *)
(***************************************************************************)
\* a nil Go slice and a non-nil Go slice holding the elements s
NilSlice == [nil |-> TRUE, elems |-> <<>>]
Slice(s) == [nil |-> FALSE, elems |-> s]

\* lower-case hexadecimal digit of a nibble, as encoding/json writes it
HexDigit(n) == IF n < 10 THEN 48 + n ELSE 87 + n

\* value of a hexadecimal digit byte, -1 when the byte is no hex digit
HexValue(c) ==
    IF c >= 48 /\ c <= 57 THEN c - 48
    ELSE IF c >= 97 /\ c <= 102 THEN c - 87
    ELSE IF c >= 65 /\ c <= 70 THEN c - 55
    ELSE -1

\* strconv.Itoa for a length (a natural number)
RECURSIVE Itoa(_)
Itoa(n) == IF n < 10 THEN <<48 + n>> ELSE Itoa(n \div 10) \o <<48 + (n % 10)>>

\* UTF-8 encoding of a code point of the basic multilingual plane
EncodeRune(cp) ==
    IF cp < 128 THEN <<cp>>
    ELSE IF cp < 2048 THEN <<192 + (cp \div 64), 128 + (cp % 64)>>
    ELSE <<224 + (cp \div 4096), 128 + ((cp \div 64) % 64), 128 + (cp % 64)>>

\* size of the UTF-8 sequence starting at s[i]; 0 when it is not valid UTF-8
\* (utf8.DecodeRune reports RuneError with size 1 there)
RuneSize(s, i) ==
    LET b == s[i]
        cont(j) == j <= Len(s) /\ s[j] >= 128 /\ s[j] <= 191
    IN  IF b < 128 THEN 1
        ELSE IF b >= 194 /\ b <= 223 /\ cont(i + 1) THEN 2
        ELSE IF b >= 224 /\ b <= 239 /\ cont(i + 1) /\ cont(i + 2)
                /\ (b # 224 \/ s[i + 1] >= 160)
                /\ (b # 237 \/ s[i + 1] <= 159) THEN 3
        ELSE 0

\* the code point of the valid UTF-8 sequence of the given size at s[i]
RuneAt(s, i, size) ==
    IF size = 1 THEN s[i]
    ELSE IF size = 2 THEN (s[i] - 192) * 64 + (s[i + 1] - 128)
    ELSE (s[i] - 224) * 4096 + (s[i + 1] - 128) * 64 + (s[i + 2] - 128)

(***************************************************************************)
(* encoding/json as wsMarshal uses it: json.Marshal of a wsRequest.        *)
(***************************************************************************)
\* the bytes encoding/json writes for the byte(s) of a string at s[i]
EscapeAt(s, i) ==
    LET b == s[i]
        size == RuneSize(s, i)
    IN  IF b < 128
        THEN IF b = 34 \/ b = 92 THEN <<92, b>>
             ELSE IF b = 10 THEN <<92, 110>>
             ELSE IF b = 13 THEN <<92, 114>>
             ELSE IF b = 9 THEN <<92, 116>>
             ELSE IF b < 32 \/ b = 60 \/ b = 62 \/ b = 38
                  THEN <<92, 117, 48, 48, HexDigit(b \div 16), HexDigit(b % 16)>>
             ELSE <<b>>
        ELSE IF size = 0 THEN <<92, 117, 102, 102, 102, 100>>
        ELSE IF size = 3 /\ RuneAt(s, i, 3) \in {8232, 8233}
             THEN <<92, 117, 50, 48, 50, HexDigit(RuneAt(s, i, 3) % 16)>>
        ELSE SubSeq(s, i, i + size - 1)

\* the escaped bytes of s from position i on, rune by rune
EscapeFrom(s, i) ==
    LET rest[j \in 1..(Len(s) + 1)] ==
            IF j > Len(s) THEN <<>>
            ELSE EscapeAt(s, j)
                 \o rest[j + (IF RuneSize(s, j) = 0 THEN 1 ELSE RuneSize(s, j))]
    IN  rest[i]

\* a string literal as it would be written without escaping
MarshalStringRaw(s) == <<34>> \o s \o <<34>>

\* a Go string as a JSON string literal
MarshalString(s) == <<34>> \o EscapeFrom(s, 1) \o <<34>>

\* a wsName: {"name":"..."}
MarshalName(n) ==
    <<123, 34, 110, 97, 109, 101, 34, 58>> \o MarshalString(n.Name) \o <<125>>

RECURSIVE MarshalNameElems(_, _)
MarshalNameElems(ns, i) ==
    IF i > Len(ns) THEN <<>>
    ELSE (IF i > 1 THEN <<44>> ELSE <<>>) \o MarshalName(ns[i])
         \o MarshalNameElems(ns, i + 1)

\* a []wsName: null when nil, an array otherwise
MarshalNames(sl) ==
    IF sl.nil THEN <<110, 117, 108, 108>>
    ELSE <<91>> \o MarshalNameElems(sl.elems, 1) \o <<93>>

\* json.Marshal of a wsRequest, its fields in declaration order
MarshalRequest(r) ==
    <<123, 34, 83, 85, 66, 83, 67, 82, 73, 66, 69, 34, 58>>
    \o MarshalNames(r.Subscribe)
    \o <<44, 34, 85, 78, 83, 85, 66, 83, 67, 82, 73, 66, 69, 34, 58>>
    \o MarshalNames(r.Unsubscribe)
    \o <<44, 34, 83, 69, 83, 83, 73, 79, 78, 95, 73, 68, 34, 58>>
    \o MarshalString(r.SessionID)
    \o <<125>>

\* wsMarshal: the decimal length of the body, a newline, the body; tag 0
wsMarshal(r) ==
    LET b == MarshalRequest(r)
    IN  [data |-> Itoa(Len(b)) \o <<10>> \o b, payloadType |-> 0, err |-> FALSE]

(***************************************************************************)
(* encoding/json as wsUnmarshal uses it: json.Unmarshal into a wsRequest.  *)
(* The decoder covers JSON texts whose members are the fields of wsRequest *)
(* and wsName, with white space between their tokens; any other text is    *)
(* reported as a decoding error.                                           *)
(***************************************************************************)
\* the byte at position p, -1 past the end of the buffer
At(b, p) == IF p >= 1 /\ p <= Len(b) THEN b[p] ELSE -1

\* whether the literal lit stands at position p
HasLit(b, p, lit) == p + Len(lit) - 1 <= Len(b) /\ SubSeq(b, p, p + Len(lit) - 1) = lit

ParseFail == [ok |-> FALSE, p |-> 0]

\* the code point of the four hex digits at p, -1 when they are not hex digits
Hex4(b, p) ==
    LET d(i) == HexValue(At(b, p + i))
    IN  IF d(0) < 0 \/ d(1) < 0 \/ d(2) < 0 \/ d(3) < 0 THEN -1
        ELSE d(0) * 4096 + d(1) * 256 + d(2) * 16 + d(3)

\* the code point \uXXXX stands for: U+FFFD for a surrogate
EscapedRune(cp) == IF cp >= 55296 /\ cp <= 57343 THEN 65533 ELSE cp

\* the bytes of a string literal from position p (after the opening quote)
RECURSIVE StrBody(_, _, _)
StrBody(b, p, acc) ==
    LET c == At(b, p)
        e == At(b, p + 1)
        size == IF c >= 128 THEN RuneSize(b, p) ELSE 1
    IN  IF c < 32 THEN ParseFail
        ELSE IF c = 34 THEN [ok |-> TRUE, v |-> acc, p |-> p + 1]
        ELSE IF c = 92
        THEN IF e \in {34, 92, 47} THEN StrBody(b, p + 2, acc \o <<e>>)
             ELSE IF e = 110 THEN StrBody(b, p + 2, acc \o <<10>>)
             ELSE IF e = 114 THEN StrBody(b, p + 2, acc \o <<13>>)
             ELSE IF e = 116 THEN StrBody(b, p + 2, acc \o <<9>>)
             ELSE IF e = 98 THEN StrBody(b, p + 2, acc \o <<8>>)
             ELSE IF e = 102 THEN StrBody(b, p + 2, acc \o <<12>>)
             ELSE IF e = 117 /\ Hex4(b, p + 2) >= 0
             THEN StrBody(b, p + 6, acc \o EncodeRune(EscapedRune(Hex4(b, p + 2))))
             ELSE ParseFail
        ELSE IF size = 0 THEN StrBody(b, p + 1, acc \o <<239, 191, 189>>)
        ELSE StrBody(b, p + size, acc \o SubSeq(b, p, p + size - 1))

\* a JSON string literal at position p
ParseString(b, p) == IF At(b, p) = 34 THEN StrBody(b, p + 1, <<>>) ELSE ParseFail

\* a string-typed field: null leaves the field as it was
ParseStringField(b, p, cur) ==
    IF HasLit(b, p, <<110, 117, 108, 108>>)
    THEN [ok |-> TRUE, v |-> cur, p |-> p + 4]
    ELSE ParseString(b, p)

\* the value after the key k of a wsName member: only "name" is a member
NameValue(b, k, cur) ==
    IF ~k.ok THEN ParseFail
    ELSE IF At(b, k.p) # 58 \/ k.v # <<110, 97, 109, 101>> THEN ParseFail
    ELSE ParseStringField(b, k.p + 1, cur)

\* the members of a wsName object, from position p (after "{" or ",")
RECURSIVE NameMembers(_, _, _)
NameAfter(b, s) ==
    IF ~s.ok THEN ParseFail
    ELSE IF At(b, s.p) = 44 THEN NameMembers(b, s.p + 1, s.v)
    ELSE IF At(b, s.p) = 125 THEN [ok |-> TRUE, v |-> [Name |-> s.v], p |-> s.p + 1]
    ELSE ParseFail

NameMembers(b, p, cur) == NameAfter(b, NameValue(b, ParseString(b, p), cur))

\* a wsName object at position p
ParseName(b, p) ==
    IF At(b, p) # 123 THEN ParseFail
    ELSE IF At(b, p + 1) = 125 THEN [ok |-> TRUE, v |-> [Name |-> <<>>], p |-> p + 2]
    ELSE NameMembers(b, p + 1, <<>>)

\* the elements of an array of wsName, from position p
RECURSIVE NameElems(_, _, _)
ElemAfter(b, n, acc) ==
    IF ~n.ok THEN ParseFail
    ELSE IF At(b, n.p) = 44 THEN NameElems(b, n.p + 1, Append(acc, n.v))
    ELSE IF At(b, n.p) = 93
         THEN [ok |-> TRUE, v |-> Slice(Append(acc, n.v)), p |-> n.p + 1]
    ELSE ParseFail

NameElems(b, p, acc) == ElemAfter(b, ParseName(b, p), acc)

\* a []wsName field: null gives the nil slice, an array a non-nil slice
ParseNames(b, p) ==
    IF HasLit(b, p, <<110, 117, 108, 108>>)
    THEN [ok |-> TRUE, v |-> NilSlice, p |-> p + 4]
    ELSE IF At(b, p) # 91 THEN ParseFail
    ELSE IF At(b, p + 1) = 93 THEN [ok |-> TRUE, v |-> Slice(<<>>), p |-> p + 2]
    ELSE NameElems(b, p + 1, <<>>)

\* the field of wsRequest a member key names, "" for any other key
FieldOf(key) ==
    IF key = <<83, 85, 66, 83, 67, 82, 73, 66, 69>> THEN "Subscribe"
    ELSE IF key = <<85, 78, 83, 85, 66, 83, 67, 82, 73, 66, 69>> THEN "Unsubscribe"
    ELSE IF key = <<83, 69, 83, 83, 73, 79, 78, 95, 73, 68>> THEN "SessionID"
    ELSE ""

\* the value after the key k of a wsRequest member
RequestValue(b, k, cur) ==
    IF ~k.ok THEN ParseFail
    ELSE IF At(b, k.p) # 58 \/ FieldOf(k.v) = "" THEN ParseFail
    ELSE IF FieldOf(k.v) = "SessionID" THEN ParseStringField(b, k.p + 1, cur.SessionID)
    ELSE ParseNames(b, k.p + 1)

\* cur with the parsed value x stored in the field the key k names
StoreField(k, x, cur) ==
    IF ~x.ok THEN ParseFail
    ELSE [ok |-> TRUE, p |-> x.p,
          v |-> [Subscribe |-> IF FieldOf(k.v) = "Subscribe" THEN x.v
                               ELSE cur.Subscribe,
                 Unsubscribe |-> IF FieldOf(k.v) = "Unsubscribe" THEN x.v
                                 ELSE cur.Unsubscribe,
                 SessionID |-> IF FieldOf(k.v) = "SessionID" THEN x.v
                               ELSE cur.SessionID]]

\* one member of a wsRequest object whose key k is parsed, stored into cur
RequestMember(b, k, cur) == StoreField(k, RequestValue(b, k, cur), cur)

\* the members of a wsRequest object, from position p (after "{" or ",")
RECURSIVE RequestMembers(_, _, _)
MemberAfter(b, m) ==
    IF ~m.ok THEN ParseFail
    ELSE IF At(b, m.p) = 44 THEN RequestMembers(b, m.p + 1, m.v)
    ELSE IF At(b, m.p) = 125 THEN [ok |-> TRUE, v |-> m.v, p |-> m.p + 1]
    ELSE ParseFail

RequestMembers(b, p, cur) == MemberAfter(b, RequestMember(b, ParseString(b, p), cur))

\* a wsRequest object at the start of data
ParseRequest(data, out) ==
    IF At(data, 1) # 123 THEN ParseFail
    ELSE IF At(data, 2) = 125 THEN [ok |-> TRUE, v |-> out, p |-> 3]
    ELSE RequestMembers(data, 2, out)

\* the outcome of the parse r of all of data
WholeText(data, r, out) ==
    IF r.ok /\ r.p = Len(data) + 1
    THEN [ok |-> TRUE, v |-> r.v]
    ELSE [ok |-> FALSE, v |-> out]

\* a byte of a literal or a number
IsWordByte(c) == (c >= 48 /\ c <= 57) \/ (c >= 97 /\ c <= 122) \/ c \in {43, 45, 46, 69}

\* the first byte at or after p that is not JSON white space, -1 without one
RECURSIVE NextToken(_, _)
NextToken(b, p) ==
    IF p > Len(b) THEN -1
    ELSE IF b[p] \in {32, 9, 10, 13} THEN NextToken(b, p + 1)
    ELSE b[p]

\* whether the white space at position p of b splits a literal or a number
SplitsWord(b, p) ==
    p > 1 /\ IsWordByte(b[p - 1]) /\ IsWordByte(NextToken(b, p))

\* the number of backslashes that immediately precede position p of b
BackslashRun(b, p) ==
    LET stops == {j \in 0..(p - 1) : j = 0 \/ b[j] # 92}
    IN  p - 1 - (CHOOSE j \in stops : \A k \in stops : k <= j)

\* the byte at position p opens or closes a string literal
IsQuote(b, p) == b[p] = 34 /\ BackslashRun(b, p) % 2 = 0

\* position p of b lies inside a string literal
InString(b, p) == Cardinality({i \in 1..(p - 1) : IsQuote(b, i)}) % 2 = 1

\* b without the white space between its tokens (white space inside a
\* string literal, or splitting a literal, stays)
Compact(b) ==
    LET kept == {p \in 1..Len(b) :
                    \/ b[p] \notin {32, 9, 10, 13}
                    \/ InString(b, p)
                    \/ SplitsWord(b, p)}
    IN  IF kept = 1..Len(b) THEN b
        ELSE [i \in 1..Cardinality(kept) |->
                 b[CHOOSE p \in kept : Cardinality({q \in kept : q <= p}) = i]]

\* the outcome of decoding the compacted text c into out; null leaves out
\* as it is
UnmarshalCompact(c, out) ==
    IF c = <<110, 117, 108, 108>> THEN [ok |-> TRUE, v |-> out]
    ELSE WholeText(c, ParseRequest(c, out), out)

\* json.Unmarshal(data, out) for out a *wsRequest: the decoded value, or an
\* error with out left as it was
UnmarshalRequest(data, out) == UnmarshalCompact(Compact(data), out)

(***************************************************************************)
(* The frame codec.                                                        *)
(***************************************************************************)
\* position of the first newline of data at or after p, 0 when there is none
RECURSIVE IndexNewline(_, _)
IndexNewline(data, p) ==
    IF p > Len(data) THEN 0
    ELSE IF data[p] = 10 THEN p
    ELSE IndexNewline(data, p + 1)

\* bytes.Split(data, "\n"): every newline separates two parts
RECURSIVE SplitAll(_)
SplitAll(data) ==
    LET i == IndexNewline(data, 1)
    IN  IF i = 0 THEN <<data>>
        ELSE <<SubSeq(data, 1, i - 1)>> \o SplitAll(SubSeq(data, i + 1, Len(data)))

\* bytes.SplitN(data, "\n", 2)
SplitN2(data) ==
    LET i == IndexNewline(data, 1)
    IN  IF i = 0 THEN <<data>>
        ELSE <<SubSeq(data, 1, i - 1), SubSeq(data, i + 1, Len(data))>>

NoError == [kind |-> "nil", n |-> 0]
JSONError == [kind |-> "json", n |-> 0]
CountError(l) == [kind |-> "incorrect number of elements in websocket message", n |-> l]

\* what wsUnmarshal returns for the outcome r of json.Unmarshal
JSONResult(r) ==
    [panic |-> FALSE, err |-> IF r.ok THEN NoError ELSE JSONError, v |-> r.v]

\* wsUnmarshal past its first test when the header has to be the decimal
\* length of the body
UnframeChecked(bb, out) ==
    IF Len(bb) # 2 THEN [panic |-> FALSE, err |-> CountError(Len(bb)), v |-> out]
    ELSE IF bb[1] # Itoa(Len(bb[2])) THEN [panic |-> FALSE, err |-> JSONError, v |-> out]
    ELSE IF Len(bb[2]) = 0 THEN [panic |-> FALSE, err |-> NoError, v |-> out]
    ELSE JSONResult(UnmarshalRequest(bb[2], out))

\* wsUnmarshal past its first test when an empty body is decoded like any
\* other
UnframeAnyBody(bb, out) ==
    IF Len(bb) # 2 THEN [panic |-> FALSE, err |-> CountError(Len(bb)), v |-> out]
    ELSE JSONResult(UnmarshalRequest(bb[2], out))

\* wsUnmarshal past its first test, bb being the split of data
Unframe(bb, out) ==
    IF Len(bb) # 2 THEN [panic |-> FALSE, err |-> CountError(Len(bb)), v |-> out]
    ELSE IF Len(bb[2]) = 0 THEN [panic |-> FALSE, err |-> NoError, v |-> out]
    ELSE JSONResult(UnmarshalRequest(bb[2], out))

\* wsUnmarshal(data, _, out): data[0] of an empty buffer is an index out of
\* range, a run-time panic
wsUnmarshal(data, out) ==
    IF Len(data) = 0 THEN [panic |-> TRUE, err |-> NoError, v |-> out]
    ELSE IF data[1] = 123 THEN JSONResult(UnmarshalRequest(data, out))
    ELSE Unframe(SplitN2(data), out)

\* the zero wsRequest
ZeroRequest == [Subscribe |-> NilSlice, Unsubscribe |-> NilSlice, SessionID |-> <<>>]

(***************************************************************************)
(* Stat types and the session cookie.                                      *)
(***************************************************************************)
\* "export"
StatTypeDPIStats == <<101, 120, 112, 111, 114, 116>>
\* "system-stats"
StatTypeSystemStats == <<115, 121, 115, 116, 101, 109, 45, 115, 116, 97, 116, 115>>
\* "interfaces"
StatTypeInterfaces == <<105, 110, 116, 101, 114, 102, 97, 99, 101, 115>>
\* "PHPSESSID"
sessionCookie == <<80, 72, 80, 83, 69, 83, 83, 73, 68>>

StatTypes == {StatTypeDPIStats, StatTypeSystemStats, StatTypeInterfaces}

\* StatType() of the three Stat implementations
StatType(kind) ==
    CASE kind = "DPIStats" -> StatTypeDPIStats
      [] kind = "Interfaces" -> StatTypeInterfaces
      [] kind = "SystemStats" -> StatTypeSystemStats

(***************************************************************************)
(* Inputs of the model.                                                    *)
(***************************************************************************)
\* sequences over S of length at most n
SeqsUpTo(S, n) == UNION {[1..k -> S] : k \in 0..n}

\* the variadic argument of Client.Stats: nil when no argument is passed
StatsArgs == {NilSlice} \cup {Slice(q) : q \in SeqsUpTo(StatTypes, MaxStats)}

\* cookie stores of the HTTP client, as Jar.Cookies(apiURL) lists them: an
\* empty one, and one with the cookie "lang" followed by two cookies named
\* PHPSESSID (values "sid1" and "sid2")
Cookie(name, value) == [Name |-> name, Value |-> value]
Jars ==
    { <<>>,
      <<Cookie(<<108, 97, 110, 103>>, <<101, 110>>),
        Cookie(sessionCookie, <<115, 105, 100, 49>>),
        Cookie(sessionCookie, <<115, 105, 100, 50>>)>> }

\* bytes the strings of the codec's requests are made of: a letter, a quote,
\* a newline, "<", the two bytes of U+00E9 and a byte no UTF-8 text holds
Alphabet == {97, 34, 10, 60, 195, 169, 255}

\* tuples of n strings over Alphabet holding at most b bytes in total
RECURSIVE TuplesWithin(_, _)
TuplesWithin(n, b) ==
    IF n = 0 THEN {<<>>}
    ELSE UNION {{<<str>> \o t : t \in TuplesWithin(n - 1, b - Len(str))} :
                str \in SeqsUpTo(Alphabet, b)}

\* the names t[1..n] as a non-nil []wsName
NameList(t, n) == Slice([i \in 1..n |-> [Name |-> t[i]]])

\* a request of the given shape over the names t[1..n] and the session
\* identifier t[n + 1]
RequestOf(shape, t) ==
    [Subscribe |-> IF shape = "subscribe"
                   THEN NameList(t, Len(t) - 1) ELSE NilSlice,
     Unsubscribe |-> IF shape = "unsubscribe"
                     THEN NameList(t, Len(t) - 1) ELSE NilSlice,
     SessionID |-> t[Len(t)]]

\* the requests given to wsMarshal: no list, a Subscribe list, or an
\* Unsubscribe list, with any session identifier
Requests ==
    {RequestOf(x[1], x[2]) :
         x \in {"subscribe", "unsubscribe", "none"}
               \X UNION {TuplesWithin(n + 1, MaxBytes) : n \in 0..MaxNames}}

\* keys a received frame may carry: the three stat types and "users"
FrameKeys == StatTypes \cup {<<117, 115, 101, 114, 115>>}

\* payload classes of a frame entry: one the entry's decoder accepts, one it
\* rejects with an error, and (for interfaces) an addresses array holding a
\* non-string; the payload under a key without decoder is never looked at
PayloadsFor(k) ==
    IF k = StatTypeInterfaces THEN {"valid", "invalid", "nonstring"}
    ELSE IF k \in StatTypes THEN {"valid", "invalid"}
    ELSE {"valid"}

\* the frames the device may send: maps from key to payload
Frames ==
    UNION {{m \in [K -> {"valid", "invalid", "nonstring"}] :
                \A k \in K : m[k] \in PayloadsFor(k)} :
           K \in {K \in SUBSET FrameKeys : Cardinality(K) <= MaxEntries}}

(***************************************************************************)
(* State.                                                                  *)
(***************************************************************************)
VARIABLES
    jar,         \* c.client.Jar.Cookies(c.apiURL)
    statsArg,    \* the stats argument Client.Stats was called with
    stats,       \* the stats argument of Client.Stats, after defaulting
    pcMain,      \* the caller: its position in Stats and in the done closure
    statsErr,    \* the error Stats returned ("none" before it returns)
    doneErr,     \* the error the done closure returned ("none" before)
    sock,        \* the websocket connection wsc: "none", "open", "closed"
    wire,        \* the frames written to the socket, in order
    sub,         \* the wsRequest shared by initWebsocket and statsDone
    pcK,         \* the keepalive goroutine
    kaDoneC,     \* doneC of Stats is closed
    pcC,         \* the collectStats goroutine
    wsDoneC,     \* doneC of initWebsocket is closed
    frame,       \* the map m of the last frame received
    remaining,   \* keys of m the range loop has not visited yet
    pending,     \* the Stat the collector is sending on statC
    published,   \* Stats of the current frame the consumer received from statC
    statC,       \* the output channel: "none", "open", "closed"
    crashed,     \* a goroutine panicked: the process is gone
    creq,        \* codec: the request given to wsMarshal
    cbuf,        \* codec: the buffer wsMarshal returned
    cout,        \* codec: what wsUnmarshal returned
    cpc          \* codec: position of the round trip

\* wsUnmarshal applied to received buffers
VARIABLES
    fbuf,        \* the buffer given to wsUnmarshal
    fout,        \* the destination as it is passed in
    fres,        \* what wsUnmarshal(fbuf) returned, and the destination after it
    fbare,       \* what wsUnmarshal returned for the text after the first newline
    fpc          \* "idle", "framed", "bare", "done"

\* ipLess applied to pairs of addresses
VARIABLES
    ipA,         \* the first argument of ipLess
    ipB,         \* the second argument of ipLess
    ipRes,       \* what ipLess(ipA, ipB) returned
    ipPc         \* "idle", "call", "done"

\* the UnmarshalJSON methods of the three stats applied to payloads
VARIABLES
    dStat,       \* the StatType of the receiver
    dIn,         \* the payload as json.Unmarshal stores it in the local v
    dRecv,       \* the receiver before the call
    dRes,        \* what UnmarshalJSON returned, and the receiver after it
    dPc          \* "idle", "call", "done"

codecVars == <<creq, cbuf, cout, cpc>>
statsVars == <<jar, statsArg, stats, pcMain, statsErr, doneErr, sock, wire, sub, pcK,
               kaDoneC, pcC, wsDoneC, frame, remaining, pending, published, statC,
               crashed>>
frameVars == <<fbuf, fout, fres, fbare, fpc>>
ipVars == <<ipA, ipB, ipRes, ipPc>>
decodeVars == <<dStat, dIn, dRecv, dRes, dPc>>
pureVars == <<frameVars, ipVars, decodeVars>>
vars == <<jar, statsArg, stats, pcMain, statsErr, doneErr, sock, wire, sub, pcK, kaDoneC,
          pcC, wsDoneC, frame, remaining, pending, published, statC, crashed,
          creq, cbuf, cout, cpc, pureVars>>

NoFrame == [k \in {} |-> "valid"]
NoStat == [kind |-> "none"]
NoOutput == [panic |-> FALSE, err |-> NoError, v |-> ZeroRequest]

\* the state before Client.Stats is called
InitStats ==
    /\ jar \in Jars
    /\ statsArg = NilSlice
    /\ stats = NilSlice
    /\ pcMain = "idle"
    /\ statsErr = "none"
    /\ doneErr = "none"
    /\ sock = "none"
    /\ wire = <<>>
    /\ sub = ZeroRequest
    /\ pcK = "none"
    /\ kaDoneC = FALSE
    /\ pcC = "none"
    /\ wsDoneC = FALSE
    /\ frame = NoFrame
    /\ remaining = {}
    /\ pending = NoStat
    /\ published = <<>>
    /\ statC = "none"
    /\ crashed = FALSE

\* the codec at rest
InitCodecIdle ==
    /\ creq = ZeroRequest
    /\ cbuf = [data |-> <<>>, payloadType |-> 0, err |-> FALSE]
    /\ cout = NoOutput
    /\ cpc = "idle"

InitFramesIdle ==
    /\ fbuf = <<>>
    /\ fout = ZeroRequest
    /\ fres = NoOutput
    /\ fbare = NoOutput
    /\ fpc = "idle"

NoLess == [panic |-> FALSE, less |-> FALSE]

InitIPIdle ==
    /\ ipA = <<>>
    /\ ipB = <<>>
    /\ ipRes = NoLess
    /\ ipPc = "idle"

\* the nil error
NilError == [kind |-> "nil", text |-> <<>>]

InitDecodeIdle ==
    /\ dStat = <<>>
    /\ dIn = <<>>
    /\ dRecv = <<>>
    /\ dRes = [panic |-> FALSE, err |-> NilError, recv |-> <<>>]
    /\ dPc = "idle"

\* no pure function is being applied
InitPureIdle == InitFramesIdle /\ InitIPIdle /\ InitDecodeIdle

(***************************************************************************)
(* Client.Stats and initWebsocket.                                         *)
(***************************************************************************)
\* the stats argument, defaulted to all three types when nil
DefaultStats(arg) ==
    IF arg.nil
    THEN Slice(<<StatTypeDPIStats, StatTypeInterfaces, StatTypeSystemStats>>)
    ELSE arg

\* the cookie loop as it would be without its break: the last match wins
RECURSIVE SessionIDLast(_, _)
SessionIDLast(cookies, i) ==
    IF i > Len(cookies) THEN <<>>
    ELSE IF SessionIDLast(cookies, i + 1) # <<>>
         THEN SessionIDLast(cookies, i + 1)
    ELSE IF cookies[i].Name = sessionCookie THEN cookies[i].Value
    ELSE <<>>

\* the value of the first cookie named sessionCookie, "" when there is none
RECURSIVE SessionIDFrom(_, _)
SessionIDFrom(cookies, i) ==
    IF i > Len(cookies) THEN <<>>
    ELSE IF cookies[i].Name = sessionCookie THEN cookies[i].Value
    ELSE SessionIDFrom(cookies, i + 1)

\* the subscribe request initWebsocket builds
SubscribeRequest(st, cookies) ==
    [Subscribe |-> Slice([i \in 1..Len(st.elems) |-> [Name |-> st.elems[i]]]),
     Unsubscribe |-> NilSlice,
     SessionID |-> SessionIDFrom(cookies, 1)]

\* Stats up to the call of initWebsocket: the channels are made and the
\* keepalive goroutine is started
StatsStart(arg) ==
    /\ ~crashed
    /\ pcMain = "idle"
    /\ statsArg' = arg
    /\ stats' = DefaultStats(arg)
    /\ pcK' = "request"
    /\ pcMain' = "dial"
    /\ UNCHANGED <<jar,
                   statsErr, doneErr, sock, wire, sub, kaDoneC, pcC,
                   wsDoneC, frame, remaining, pending, published, statC,
                   crashed>>
    /\ UNCHANGED <<codecVars, pureVars>>

\* initWebsocket: websocket.DialConfig succeeds; the request is built
DialOK ==
    /\ ~crashed
    /\ pcMain = "dial"
    /\ sock' = "open"
    /\ sub' = SubscribeRequest(stats, jar)
    /\ pcMain' = "subscribe"
    /\ UNCHANGED <<jar, statsArg, stats,
                   statsErr, doneErr, wire, pcK, kaDoneC, pcC,
                   wsDoneC, frame, remaining, pending, published, statC,
                   crashed>>
    /\ UNCHANGED <<codecVars, pureVars>>

\* initWebsocket: websocket.DialConfig fails; Stats returns the error
DialFail ==
    /\ ~crashed
    /\ pcMain = "dial"
    /\ statsErr' = "dial"
    /\ pcMain' = "startFailed"
    /\ UNCHANGED <<jar, statsArg, stats,
                   doneErr, sock, wire, sub, pcK, kaDoneC, pcC,
                   wsDoneC, frame, remaining, pending, published, statC,
                   crashed>>
    /\ UNCHANGED <<codecVars, pureVars>>

\* initWebsocket: wsCodec.Send(wsc, sub) succeeds; statC is made, the
\* collector goroutine is started and Stats returns
SubscribeOK ==
    /\ ~crashed
    /\ pcMain = "subscribe"
    /\ sock = "open"
    /\ wire' = Append(wire, wsMarshal(sub).data)
    /\ statC' = "open"
    /\ pcC' = "check"
    /\ statsErr' = "nil"
    /\ pcMain' = "streaming"
    /\ UNCHANGED <<jar, statsArg, stats,
                   doneErr, sock, sub, pcK, kaDoneC, wsDoneC,
                   frame, remaining, pending, published, crashed>>
    /\ UNCHANGED <<codecVars, pureVars>>

\* initWebsocket: wsCodec.Send(wsc, sub) fails; Stats returns the error
SubscribeFail ==
    /\ ~crashed
    /\ pcMain = "subscribe"
    /\ statsErr' = "send"
    /\ pcMain' = "startFailed"
    /\ UNCHANGED <<jar, statsArg, stats,
                   doneErr, sock, wire, sub, pcK, kaDoneC, pcC,
                   wsDoneC, frame, remaining, pending, published, statC,
                   crashed>>
    /\ UNCHANGED <<codecVars, pureVars>>

(***************************************************************************)
(* Client.keepalive and the goroutine of Stats that runs it.               *)
(***************************************************************************)
\* the heartbeat request succeeds; the loop goes to its select
HeartbeatOK ==
    /\ ~crashed
    /\ pcK = "request"
    /\ pcK' = "select"
    /\ UNCHANGED <<jar, statsArg, stats,
                   pcMain, statsErr, doneErr, sock, wire, sub,
                   kaDoneC, pcC, wsDoneC, frame, remaining, pending,
                   published, statC, crashed>>
    /\ UNCHANGED <<codecVars, pureVars>>

\* the heartbeat request fails; keepalive returns the error and the
\* goroutine blocks sending it on the unbuffered errC
HeartbeatFail ==
    /\ ~crashed
    /\ pcK = "request"
    /\ pcK' = "sendErr"
    /\ UNCHANGED <<jar, statsArg, stats,
                   pcMain, statsErr, doneErr, sock, wire, sub,
                   kaDoneC, pcC, wsDoneC, frame, remaining, pending,
                   published, statC, crashed>>
    /\ UNCHANGED <<codecVars, pureVars>>

\* select: the five second timer fires
KeepaliveTimer ==
    /\ ~crashed
    /\ pcK = "select"
    /\ pcK' = "request"
    /\ UNCHANGED <<jar, statsArg, stats,
                   pcMain, statsErr, doneErr, sock, wire, sub,
                   kaDoneC, pcC, wsDoneC, frame, remaining, pending,
                   published, statC, crashed>>
    /\ UNCHANGED <<codecVars, pureVars>>

\* select: doneC is closed; keepalive returns nil, the deferred function
\* closes errC and calls wg.Done
KeepaliveDone ==
    /\ ~crashed
    /\ pcK = "select"
    /\ kaDoneC
    /\ pcK' = "done"
    /\ UNCHANGED <<jar, statsArg, stats,
                   pcMain, statsErr, doneErr, sock, wire, sub,
                   kaDoneC, pcC, wsDoneC, frame, remaining, pending,
                   published, statC, crashed>>
    /\ UNCHANGED <<codecVars, pureVars>>

(***************************************************************************)
(* The done closure of Stats and the closure statsDone returns.            *)
(***************************************************************************)
\* the caller invokes done: close(doneC)
DoneStart ==
    /\ ~crashed
    /\ pcMain = "streaming"
    /\ kaDoneC' = TRUE
    /\ pcMain' = "waitKeepalive"
    /\ UNCHANGED <<jar, statsArg, stats,
                   statsErr, doneErr, sock, wire, sub, pcK, pcC,
                   wsDoneC, frame, remaining, pending, published, statC,
                   crashed>>
    /\ UNCHANGED <<codecVars, pureVars>>

\* the caller invokes done once more after it has returned: close(doneC) on
\* the closed doneC panics in the caller's goroutine, which ends the process
\* unless the caller recovers
DoneAgain ==
    /\ ~crashed
    /\ pcMain = "returned"
    /\ kaDoneC
    /\ pcMain' = "panicked"
    /\ crashed' \in BOOLEAN
    /\ UNCHANGED <<jar, statsArg, stats,
                   statsErr, doneErr, sock, wire, sub, pcK,
                   kaDoneC, pcC, wsDoneC, frame, remaining, pending,
                   published, statC>>
    /\ UNCHANGED <<codecVars, pureVars>>

\* done: wg.Wait() returns once the keepalive goroutine has called wg.Done
WaitKeepalive ==
    /\ ~crashed
    /\ pcMain = "waitKeepalive"
    /\ pcK = "done"
    /\ pcMain' = "recvErr"
    /\ UNCHANGED <<jar, statsArg, stats,
                   statsErr, doneErr, sock, wire, sub, pcK,
                   kaDoneC, pcC, wsDoneC, frame, remaining, pending,
                   published, statC, crashed>>
    /\ UNCHANGED <<codecVars, pureVars>>

\* done: err := <-errC. A goroutine blocked in errC <- err hands its error
\* over and done returns it; on the closed errC the receive yields nil
RecvErr ==
    /\ ~crashed
    /\ pcMain = "recvErr"
    /\ pcK \in {"sendErr", "done"}
    /\ IF pcK = "sendErr"
       THEN /\ pcK' = "done"
            /\ doneErr' = "keepalive"
            /\ pcMain' = "returned"
       ELSE /\ pcMain' = "unsubscribe"
            /\ UNCHANGED <<pcK, doneErr>>
    /\ UNCHANGED <<jar, statsArg, stats,
                   statsErr, sock, wire, sub, kaDoneC, pcC, wsDoneC,
                   frame, remaining, pending, published, statC, crashed>>
    /\ UNCHANGED <<codecVars, pureVars>>

\* statsDone as it would be without sub.Subscribe = nil
UnsubscribeKeepsSubscribe(r) ==
    [Subscribe |-> r.Subscribe,
     Unsubscribe |-> Slice(r.Subscribe.elems),
     SessionID |-> r.SessionID]

\* statsDone: the request with its names moved from Subscribe to Unsubscribe
UnsubscribeRequest(r) ==
    [Subscribe |-> NilSlice,
     Unsubscribe |-> Slice(r.Subscribe.elems),
     SessionID |-> r.SessionID]

\* statsDone: the request is rewritten and wsCodec.Send(wsc, sub) succeeds
UnsubscribeOK ==
    /\ ~crashed
    /\ pcMain = "unsubscribe"
    /\ sock = "open"
    /\ sub' = UnsubscribeRequest(sub)
    /\ wire' = Append(wire, wsMarshal(sub').data)
    /\ pcMain' = "close"
    /\ UNCHANGED <<jar, statsArg, stats,
                   statsErr, doneErr, sock, pcK, kaDoneC, pcC,
                   wsDoneC, frame, remaining, pending, published, statC,
                   crashed>>
    /\ UNCHANGED <<codecVars, pureVars>>

\* statsDone: the request is rewritten and wsCodec.Send(wsc, sub) fails; done
\* returns the error
UnsubscribeFail ==
    /\ ~crashed
    /\ pcMain = "unsubscribe"
    /\ sub' = UnsubscribeRequest(sub)
    /\ doneErr' = "unsubscribe"
    /\ pcMain' = "returned"
    /\ UNCHANGED <<jar, statsArg, stats,
                   statsErr, sock, wire, pcK, kaDoneC, pcC,
                   wsDoneC, frame, remaining, pending, published, statC,
                   crashed>>
    /\ UNCHANGED <<codecVars, pureVars>>

\* statsDone as it would be without the call of wsc.Close()
CloseSkipped ==
    /\ ~crashed
    /\ pcMain = "close"
    /\ pcMain' = "stopCollector"
    /\ UNCHANGED <<jar, statsArg, stats,
                   statsErr, doneErr, sock, wire, sub, pcK, kaDoneC,
                   pcC, wsDoneC, frame, remaining, pending, published, statC,
                   crashed>>
    /\ UNCHANGED <<codecVars, pureVars>>

\* statsDone: wsc.Close() succeeds
CloseOK ==
    /\ ~crashed
    /\ pcMain = "close"
    /\ sock' = "closed"
    /\ pcMain' = "stopCollector"
    /\ UNCHANGED <<jar, statsArg, stats,
                   statsErr, doneErr, wire, sub, pcK, kaDoneC,
                   pcC, wsDoneC, frame, remaining, pending, published, statC,
                   crashed>>
    /\ UNCHANGED <<codecVars, pureVars>>

\* statsDone: wsc.Close() fails (the connection may or may not be closed by
\* then); done returns the error
CloseFail ==
    /\ ~crashed
    /\ pcMain = "close"
    /\ sock' \in {"open", "closed"}
    /\ doneErr' = "close"
    /\ pcMain' = "returned"
    /\ UNCHANGED <<jar, statsArg, stats,
                   statsErr, wire, sub, pcK, kaDoneC, pcC,
                   wsDoneC, frame, remaining, pending, published, statC,
                   crashed>>
    /\ UNCHANGED <<codecVars, pureVars>>

\* statsDone: close(doneC)
StopCollector ==
    /\ ~crashed
    /\ pcMain = "stopCollector"
    /\ wsDoneC' = TRUE
    /\ pcMain' = "waitCollector"
    /\ UNCHANGED <<jar, statsArg, stats,
                   statsErr, doneErr, sock, wire, sub, pcK,
                   kaDoneC, pcC, frame, remaining, pending, published, statC,
                   crashed>>
    /\ UNCHANGED <<codecVars, pureVars>>

\* statsDone as it would be without wg.Wait(): it goes on while the
\* collector is still running
WaitCollectorSkipped ==
    /\ ~crashed
    /\ pcMain = "waitCollector"
    /\ pcMain' = "closeStatC"
    /\ UNCHANGED <<jar, statsArg, stats,
                   statsErr, doneErr, sock, wire, sub, pcK,
                   kaDoneC, pcC, wsDoneC, frame, remaining, pending,
                   published, statC, crashed>>
    /\ UNCHANGED <<codecVars, pureVars>>

\* statsDone: wg.Wait() returns once collectStats has called wg.Done
WaitCollector ==
    /\ ~crashed
    /\ pcMain = "waitCollector"
    /\ pcC = "done"
    /\ pcMain' = "closeStatC"
    /\ UNCHANGED <<jar, statsArg, stats,
                   statsErr, doneErr, sock, wire, sub, pcK,
                   kaDoneC, pcC, wsDoneC, frame, remaining, pending,
                   published, statC, crashed>>
    /\ UNCHANGED <<codecVars, pureVars>>

\* done: close(statC); return nil
CloseStatC ==
    /\ ~crashed
    /\ pcMain = "closeStatC"
    /\ statC' = "closed"
    /\ doneErr' = "nil"
    /\ pcMain' = "returned"
    /\ UNCHANGED <<jar, statsArg, stats,
                   statsErr, sock, wire, sub, pcK, kaDoneC, pcC,
                   wsDoneC, frame, remaining, pending, published, crashed>>
    /\ UNCHANGED <<codecVars, pureVars>>

(***************************************************************************)
(* collectStats.                                                           *)
(***************************************************************************)
\* the decoder the switch of collectStats picks for a key, "none" for a key
\* it has no case for
DecoderFor(k) ==
    IF k = StatTypeDPIStats THEN "DPIStats"
    ELSE IF k = StatTypeInterfaces THEN "Interfaces"
    ELSE IF k = StatTypeSystemStats THEN "SystemStats"
    ELSE "none"

\* what UnmarshalJSON of a decoder does with a payload: "ok", "error", or
\* "panic" (Interfaces asserts every element of addresses to be a string)
UnmarshalJSON(kind, payload) ==
    IF payload = "valid" THEN "ok"
    ELSE IF payload = "nonstring" /\ kind = "Interfaces" THEN "panic"
    ELSE "error"

\* what the loop body does with the entry of key k: "publish", "skip", "panic"
EntryOutcome(k, payload) ==
    IF DecoderFor(k) = "none" THEN "skip"
    ELSE IF UnmarshalJSON(DecoderFor(k), payload) = "ok" THEN "publish"
    ELSE IF UnmarshalJSON(DecoderFor(k), payload) = "panic" THEN "panic"
    ELSE "skip"

\* the select at the top of the loop: return when doneC is closed, go on to
\* receive otherwise
CollectCheck ==
    /\ ~crashed
    /\ pcC = "check"
    /\ pcC' = IF wsDoneC THEN "done" ELSE "recv"
    /\ UNCHANGED <<jar, statsArg, stats,
                   pcMain, statsErr, doneErr, sock, wire, sub,
                   pcK, kaDoneC, wsDoneC, frame, remaining, pending,
                   published, statC, crashed>>
    /\ UNCHANGED <<codecVars, pureVars>>

\* wsCodec.Receive returns an error (always so on a closed connection): continue
ReceiveError ==
    /\ ~crashed
    /\ pcC = "recv"
    /\ pcC' = "check"
    /\ UNCHANGED <<jar, statsArg, stats,
                   pcMain, statsErr, doneErr, sock, wire, sub,
                   pcK, kaDoneC, wsDoneC, frame, remaining, pending,
                   published, statC, crashed>>
    /\ UNCHANGED <<codecVars, pureVars>>

\* wsCodec.Receive decodes a frame into m; the range loop starts
ReceiveFrame(m) ==
    /\ ~crashed
    /\ pcC = "recv"
    /\ sock = "open"
    /\ frame' = m
    /\ remaining' = DOMAIN m
    /\ published' = <<>>
    /\ pcC' = "range"
    /\ UNCHANGED <<jar, statsArg, stats,
                   pcMain, statsErr, doneErr, sock, wire, sub,
                   pcK, kaDoneC, wsDoneC, pending, statC, crashed>>
    /\ UNCHANGED <<codecVars, pureVars>>

\* wsCodec.Receive hands an empty message to wsUnmarshal, which panics
ReceiveEmpty ==
    /\ ~crashed
    /\ pcC = "recv"
    /\ sock = "open"
    /\ wsUnmarshal(<<>>, ZeroRequest).panic
    /\ crashed' = TRUE
    /\ UNCHANGED <<jar, statsArg, stats,
                   pcMain, statsErr, doneErr, sock, wire, sub,
                   pcK, kaDoneC, pcC, wsDoneC, frame, remaining, pending,
                   published, statC>>
    /\ UNCHANGED <<codecVars, pureVars>>

\* the range loop as it would be with a buffered statC: the send does not
\* wait for the consumer
CollectEntryBuffered(k) ==
    /\ ~crashed
    /\ pcC = "range"
    /\ k \in remaining
    /\ remaining' = remaining \ {k}
    /\ pending' = IF EntryOutcome(k, frame[k]) = "publish"
                  THEN [kind |-> DecoderFor(k)] ELSE pending
    /\ crashed' = (EntryOutcome(k, frame[k]) = "panic")
    /\ UNCHANGED <<jar, statsArg, stats,
                   pcMain, statsErr, doneErr, sock, wire, sub, pcK,
                   kaDoneC, pcC, wsDoneC, frame, published, statC>>
    /\ UNCHANGED <<codecVars, pureVars>>

\* one iteration of the range loop over m, for a key in map order (any order)
CollectEntry(k) ==
    /\ ~crashed
    /\ pcC = "range"
    /\ k \in remaining
    /\ remaining' = remaining \ {k}
    /\ pending' = IF EntryOutcome(k, frame[k]) = "publish"
                  THEN [kind |-> DecoderFor(k)] ELSE pending
    /\ pcC' = IF EntryOutcome(k, frame[k]) = "publish" THEN "publish" ELSE pcC
    /\ crashed' = (EntryOutcome(k, frame[k]) = "panic")
    /\ UNCHANGED <<jar, statsArg, stats,
                   pcMain, statsErr, doneErr, sock, wire, sub, pcK,
                   kaDoneC, wsDoneC, frame, published, statC>>
    /\ UNCHANGED <<codecVars, pureVars>>

\* the range loop has visited every entry: back to the top of the loop, where
\* m is out of scope
RangeDone ==
    /\ ~crashed
    /\ pcC = "range"
    /\ remaining = {}
    /\ frame' = NoFrame
    /\ published' = <<>>
    /\ pcC' = "check"
    /\ UNCHANGED <<jar, statsArg, stats,
                   pcMain, statsErr, doneErr, sock, wire, sub,
                   pcK, kaDoneC, wsDoneC, remaining, pending, statC,
                   crashed>>
    /\ UNCHANGED <<codecVars, pureVars>>

\* the consumer receives from statC the Stat the collector is sending
ConsumerReceive ==
    /\ ~crashed
    /\ pcC = "publish"
    /\ statC = "open"
    /\ published' = Append(published, pending)
    /\ pending' = NoStat
    /\ pcC' = "range"
    /\ UNCHANGED <<jar, statsArg, stats,
                   pcMain, statsErr, doneErr, sock, wire, sub,
                   pcK, kaDoneC, wsDoneC, frame, remaining, statC, crashed>>
    /\ UNCHANGED <<codecVars, pureVars>>

(***************************************************************************)
(* The codec round trip: wsMarshal, then wsUnmarshal into a fresh value.   *)
(***************************************************************************)
InitCodec ==
    /\ creq \in Requests
    /\ cbuf = [data |-> <<>>, payloadType |-> 0, err |-> FALSE]
    /\ cout = NoOutput
    /\ cpc = "marshal"

Marshal ==
    /\ cpc = "marshal"
    /\ cbuf' = wsMarshal(creq)
    /\ cpc' = "unmarshal"
    /\ UNCHANGED <<creq, cout>>
    /\ UNCHANGED <<jar, statsArg, stats,
                   pcMain, statsErr, doneErr, sock, wire, sub, pcK,
                   kaDoneC, pcC, wsDoneC, frame, remaining, pending, published,
                   statC, crashed>>
    /\ UNCHANGED pureVars

Unmarshal ==
    /\ cpc = "unmarshal"
    /\ cout' = wsUnmarshal(cbuf.data, ZeroRequest)
    /\ cpc' = "done"
    /\ UNCHANGED <<creq, cbuf>>
    /\ UNCHANGED <<jar, statsArg, stats,
                   pcMain, statsErr, doneErr, sock, wire, sub, pcK,
                   kaDoneC, pcC, wsDoneC, frame, remaining, pending, published,
                   statC, crashed>>
    /\ UNCHANGED pureVars

(***************************************************************************)
(* wsUnmarshal on received buffers.                                        *)
(***************************************************************************)
\* bytes of the raw buffers: "{", "}", newline and the digit 3
FrameAlphabet == {123, 125, 10, 51}

\* a request whose three fields differ from the zero value
PriorRequest ==
    [Subscribe |-> Slice(<<[Name |-> <<97>>]>>),
     Unsubscribe |-> Slice(<<>>),
     SessionID |-> <<60, 97>>]

\* JSON bodies of requests
Bodies ==
    {MarshalRequest(r) :
         r \in {ZeroRequest, PriorRequest,
                RequestOf("unsubscribe", <<<<34>>, <<195, 169>>>>)}}

\* buffers wsUnmarshal is given: every byte string over FrameAlphabet of at
\* most MaxFrame bytes, and the bodies behind a header of at most one byte
\* and a newline, with or without a newline at their end
Buffers ==
    SeqsUpTo(FrameAlphabet, MaxFrame)
    \cup {x[1] \o <<10>> \o x[2] \o x[3] :
              x \in SeqsUpTo(FrameAlphabet, 1) \X Bodies \X {<<>>, <<10>>}}

InitFrames ==
    /\ fbuf \in Buffers
    /\ fout \in {ZeroRequest, PriorRequest}
    /\ fres = NoOutput
    /\ fbare = NoOutput
    /\ fpc = "framed"

\* wsUnmarshal(fbuf, _, &out), out holding fout
UnmarshalFramed ==
    /\ fpc = "framed"
    /\ fres' = wsUnmarshal(fbuf, fout)
    /\ fpc' = IF IndexNewline(fbuf, 1) = 0 THEN "done" ELSE "bare"
    /\ UNCHANGED <<fbuf, fout, fbare>>
    /\ UNCHANGED <<statsVars, codecVars, ipVars, decodeVars>>

\* wsUnmarshal(body, _, &out) for the text of fbuf after its first newline,
\* out holding fout
UnmarshalBare ==
    /\ fpc = "bare"
    /\ fbare' = wsUnmarshal(SplitN2(fbuf)[2], fout)
    /\ fpc' = "done"
    /\ UNCHANGED <<fbuf, fout, fres>>
    /\ UNCHANGED <<statsVars, codecVars, ipVars, decodeVars>>

(***************************************************************************)
(* The order of addresses.                                                 *)
(***************************************************************************)
\* net.IPv4len and net.IPv6len
IPv4len == 4
IPv6len == 16

\* the nil net.IP
NilIP == <<>>

\* the prefix of an IPv4 address in its 16-byte form
v4InV6Prefix == <<0, 0, 0, 0, 0, 0, 0, 0, 0, 0, 255, 255>>

\* a To4 that converts no address
To4Never(ip) == NilIP

\* net.IP.To4: the 4-byte form of an IPv4 address, nil for any other value
To4(ip) ==
    IF Len(ip) = IPv4len THEN ip
    ELSE IF Len(ip) = IPv6len /\ SubSeq(ip, 1, 12) = v4InV6Prefix
    THEN SubSeq(ip, 13, 16)
    ELSE NilIP

\* the argument as ipLess compares it: its 4-byte form where it has one
Shorten(ip) == IF To4(ip) # NilIP THEN To4(ip) ELSE ip

\* the loop of ipLess over a and b: true at the first index i with
\* a[i] < b[i]; indexing b past its end is a run-time panic
CompareBytes(a, b) ==
    LET hits == {i \in 1..Len(a) : i > Len(b) \/ a[i] < b[i]}
        first == CHOOSE i \in hits : \A j \in hits : i <= j
    IN  IF hits = {} THEN [panic |-> FALSE, less |-> FALSE]
        ELSE IF first > Len(b) THEN [panic |-> TRUE, less |-> FALSE]
        ELSE [panic |-> FALSE, less |-> TRUE]

\* ipLess past the conversions
LessShortened(a, b) ==
    IF Len(a) = IPv4len /\ Len(b) = IPv6len THEN [panic |-> FALSE, less |-> TRUE]
    ELSE IF Len(a) = IPv6len /\ Len(b) = IPv4len THEN [panic |-> FALSE, less |-> FALSE]
    ELSE IF a = NilIP /\ b = NilIP THEN [panic |-> FALSE, less |-> FALSE]
    ELSE CompareBytes(a, b)

ipLess(a, b) == LessShortened(Shorten(a), Shorten(b))

\* IPv4 addresses 10.x.0.y in their 4-byte form
IPv4Short == {<<10, x[1], 0, x[2]>> : x \in (0..MaxOctet) \X (0..MaxOctet)}

\* the same addresses in the 16-byte form net.ParseIP returns
IPv4Long == {v4InV6Prefix \o ip : ip \in IPv4Short}

\* IPv6 addresses 2001:db8:0:x::y
IPv6Only ==
    {<<32, 1, 13, 184, 0, 0, 0, x[1], 0, 0, 0, 0, 0, 0, 0, x[2]>> :
         x \in (0..MaxOctet) \X (0..MaxOctet)}

Addresses == {NilIP} \cup IPv4Short \cup IPv4Long \cup IPv6Only

InitIP ==
    /\ ipA \in Addresses
    /\ ipB \in Addresses
    /\ ipRes = NoLess
    /\ ipPc = "call"

\* ipLess(ipA, ipB)
CallIPLess ==
    /\ ipPc = "call"
    /\ ipRes' = ipLess(ipA, ipB)
    /\ ipPc' = "done"
    /\ UNCHANGED <<ipA, ipB>>
    /\ UNCHANGED <<statsVars, codecVars, frameVars, decodeVars>>

(***************************************************************************)
(* Strings and numbers.                                                    *)
(***************************************************************************)
\* a < b for Go strings: byte-wise, a proper prefix being smaller
StringLess(a, b) ==
    LET n == IF Len(a) < Len(b) THEN Len(a) ELSE Len(b)
        d == {i \in 1..n : a[i] # b[i]}
    IN  IF d = {} THEN Len(a) < Len(b)
        ELSE LET i == CHOOSE x \in d : \A y \in d : x <= y
             IN  a[i] < b[i]

\* the value of the decimal digits s
RECURSIVE DigitsValue(_)
DigitsValue(s) ==
    IF s = <<>> THEN 0
    ELSE 10 * DigitsValue(SubSeq(s, 1, Len(s) - 1)) + (s[Len(s)] - 48)

IsDigits(s) == s # <<>> /\ \A i \in 1..Len(s) : s[i] >= 48 /\ s[i] <= 57

\* an Atoi that takes every string for a number
AtoiLenient(s) == [ok |-> TRUE, n |-> 0, err |-> NilError]

\* strconv.Atoi for strings within the range of int: an optional sign and
\* at least one decimal digit, or an error naming the string
Atoi(s) ==
    LET signed == s # <<>> /\ s[1] \in {43, 45}
        digits == IF signed THEN SubSeq(s, 2, Len(s)) ELSE s
    IN  IF ~IsDigits(digits)
        THEN [ok |-> FALSE, n |-> 0, err |-> [kind |-> "strconv.Atoi", text |-> s]]
        ELSE [ok |-> TRUE,
              n |-> IF signed /\ s[1] = 45 THEN 0 - DigitsValue(digits)
                    ELSE DigitsValue(digits),
              err |-> NilError]

(***************************************************************************)
(* Parsing of addresses: net.ParseIP, net.ParseCIDR and net.ParseMAC for   *)
(* texts without a zone and without an IPv4 tail in an IPv6 address.       *)
(***************************************************************************)
\* position of the first byte c of s at or after p, 0 when there is none
RECURSIVE IndexByte(_, _, _)
IndexByte(s, c, p) ==
    IF p > Len(s) THEN 0
    ELSE IF s[p] = c THEN p
    ELSE IndexByte(s, c, p + 1)

\* the parts of s between the bytes c
RECURSIVE SplitOn(_, _)
SplitOn(s, c) ==
    LET i == IndexByte(s, c, 1)
    IN  IF i = 0 THEN <<s>>
        ELSE <<SubSeq(s, 1, i - 1)>> \o SplitOn(SubSeq(s, i + 1, Len(s)), c)

\* strings.Split(s, c): s cut at every c
SplitEvery(s, c) == SplitOn(s, c)

\* strings.SplitN(s, c, 2): s cut at its first c, or s alone
SplitFirst(s, c) ==
    LET i == IndexByte(s, c, 1)
    IN  IF i = 0 THEN <<s>>
        ELSE <<SubSeq(s, 1, i - 1), SubSeq(s, i + 1, Len(s))>>

\* a decimal field of a dotted IPv4 address: one to three digits, no
\* leading zero, at most 255
IsOctet(f) ==
    /\ IsDigits(f)
    /\ Len(f) <= 3
    /\ (Len(f) > 1 => f[1] # 48)
    /\ DigitsValue(f) <= 255

\* the 16-byte form of the dotted IPv4 address s, nil when s is none
ParseIPv4(s) ==
    LET f == SplitOn(s, 46)
    IN  IF Len(f) = 4 /\ \A i \in 1..4 : IsOctet(f[i])
        THEN v4InV6Prefix \o [i \in 1..4 |-> DigitsValue(f[i])]
        ELSE NilIP

\* the value of the hexadecimal digits g
RECURSIVE HexNumber(_)
HexNumber(g) ==
    IF g = <<>> THEN 0
    ELSE 16 * HexNumber(SubSeq(g, 1, Len(g) - 1)) + HexValue(g[Len(g)])

\* one to four hexadecimal digits
IsHexGroup(g) ==
    Len(g) >= 1 /\ Len(g) <= 4 /\ \A i \in 1..Len(g) : HexValue(g[i]) >= 0

\* the groups of a colon-separated text, none for the empty text
Groups(t) == IF t = <<>> THEN <<>> ELSE SplitOn(t, 58)

\* the two bytes of each group
RECURSIVE GroupBytes(_)
GroupBytes(gs) ==
    IF gs = <<>> THEN <<>>
    ELSE <<HexNumber(gs[1]) \div 256, HexNumber(gs[1]) % 256>>
         \o GroupBytes(SubSeq(gs, 2, Len(gs)))

\* position of the first "::" of s, 0 when there is none
Ellipsis(s) ==
    LET at == {i \in 1..(Len(s) - 1) : s[i] = 58 /\ s[i + 1] = 58}
    IN  IF at = {} THEN 0 ELSE CHOOSE i \in at : \A j \in at : i <= j

\* the IPv6 address s, nil when s is none: eight groups, or fewer with one
\* "::" standing for the missing groups
ParseIPv6(s) ==
    LET e == Ellipsis(s)
        left == Groups(IF e = 0 THEN s ELSE SubSeq(s, 1, e - 1))
        right == IF e = 0 THEN <<>> ELSE Groups(SubSeq(s, e + 2, Len(s)))
        gs == left \o right
    IN  IF /\ \A i \in 1..Len(gs) : IsHexGroup(gs[i])
           /\ IF e = 0 THEN Len(gs) = 8 ELSE Len(gs) <= 7
        THEN GroupBytes(left) \o [i \in 1..(16 - 2 * Len(gs)) |-> 0] \o GroupBytes(right)
        ELSE NilIP

\* net.ParseIP: a dotted text is an IPv4 address, a text with a colon an
\* IPv6 address, anything else nil
ParseIP(s) ==
    LET dot == IndexByte(s, 46, 1)
        colon == IndexByte(s, 58, 1)
    IN  IF dot # 0 /\ (colon = 0 \/ dot < colon) THEN ParseIPv4(s)
        ELSE IF colon # 0 THEN ParseIPv6(s)
        ELSE NilIP

\* net.ParseCIDR(s), of which the decoder keeps the address: the address
\* before the "/" when a prefix length within the address's bits follows it
ParseCIDR(s) ==
    LET i == IndexByte(s, 47, 1)
        addr == SubSeq(s, 1, i - 1)
        mask == SubSeq(s, i + 1, Len(s))
        ip == IF ParseIPv4(addr) # NilIP THEN ParseIPv4(addr) ELSE ParseIPv6(addr)
        bits == IF ParseIPv4(addr) # NilIP THEN 8 * IPv4len ELSE 8 * IPv6len
    IN  IF i = 0 \/ ip = NilIP \/ ~IsDigits(mask) \/ Len(mask) > 3
           \/ DigitsValue(mask) > bits
        THEN [ok |-> FALSE, ip |-> NilIP, err |-> [kind |-> "net.ParseCIDR", text |-> s]]
        ELSE [ok |-> TRUE, ip |-> ip, err |-> NilError]

\* the text s is n groups of w hexadecimal digits with the byte sep (the
\* first separator of s) between them
IsGroupsOf(s, w, n) ==
    /\ Len(s) = n * (w + 1) - 1
    /\ \A i \in 1..Len(s) :
           IF i % (w + 1) = 0 THEN s[i] = s[w + 1] ELSE HexValue(s[i]) >= 0

\* the bytes of the hexadecimal digits of s, separators left out
HexBytes(s) ==
    LET digits == SelectSeq(s, LAMBDA c : HexValue(c) >= 0)
    IN  [i \in 1..(Len(digits) \div 2) |->
            16 * HexValue(digits[2 * i - 1]) + HexValue(digits[2 * i])]

\* net.ParseMAC: 6, 8 or 20 bytes written as xx:xx:..., xx-xx-... or
\* xxxx.xxxx....
ParseMAC(s) ==
    IF \/ /\ Len(s) >= 3 /\ s[3] \in {58, 45}
          /\ \E n \in {6, 8, 20} : IsGroupsOf(s, 2, n)
       \/ /\ Len(s) >= 5 /\ s[5] = 46
          /\ \E n \in {3, 4, 10} : IsGroupsOf(s, 4, n)
    THEN [ok |-> TRUE, mac |-> HexBytes(s), err |-> NilError]
    ELSE [ok |-> FALSE, mac |-> <<>>, err |-> [kind |-> "net.ParseMAC", text |-> s]]

(***************************************************************************)
(* The decoders of the three stats. json.Unmarshal has stored the payload  *)
(* in the local variable v; a decoder is modelled from that point on.      *)
(***************************************************************************)
\* byInterfaceName.Less on two elements
NameGreater(x, y) == StringLess(y.Name, x.Name)
byInterfaceNameLess(x, y) == StringLess(x.Name, y.Name)

\* byIPAndType.Less on two elements: true when the IP of x is less, and
\* otherwise true when the Type of x is less
byIPAndTypeLess(x, y) ==
    IF ipLess(x.IP, y.IP).less THEN TRUE
    ELSE IF StringLess(x.Type, y.Type) THEN TRUE
    ELSE FALSE

\* Less of the sort.Interface by on two elements
Less(by, x, y) ==
    IF by = "byInterfaceName" THEN byInterfaceNameLess(x, y)
    ELSE byIPAndTypeLess(x, y)

\* x put at the end of the sorted prefix t and moved down while
\* Less(x, its predecessor): one round of the outer loop of insertionSort
\* for the sort.Interface by
InsertLast(t, x, by) ==
    LET stops == {j \in 0..Len(t) : j = 0 \/ ~Less(by, x, t[j])}
        k == CHOOSE j \in stops : \A i \in stops : i <= j
    IN  SubSeq(t, 1, k) \o <<x>> \o SubSeq(t, k + 1, Len(t))

\* sort.Sort on a slice of fewer than seven elements: an insertion sort,
\* which asks Less(data[j], data[j - 1]) only
Sort(s, by) ==
    LET pass[i \in 0..Len(s)] ==
            IF i = 0 THEN <<>> ELSE InsertLast(pass[i - 1], s[i], by)
    IN  pass[Len(s)]

\* what a decoder returns
Decoded(recv) == [panic |-> FALSE, err |-> NilError, recv |-> recv]
Failed(err, recv) == [panic |-> FALSE, err |-> err, recv |-> recv]
Panicked(recv) == [panic |-> TRUE, err |-> NilError, recv |-> recv]

\* SystemStats.UnmarshalJSON past json.Unmarshal: v holds the strings CPU,
\* Uptime and Mem, ss the receiver; the Uptime of the result is counted in
\* seconds
SystemStatsFromStrings(v, ss) ==
    IF ~Atoi(v.CPU).ok THEN Failed(Atoi(v.CPU).err, ss)
    ELSE IF ~Atoi(v.Uptime).ok THEN Failed(Atoi(v.Uptime).err, ss)
    ELSE IF ~Atoi(v.Mem).ok THEN Failed(Atoi(v.Mem).err, ss)
    ELSE Decoded([CPU |-> Atoi(v.CPU).n,
                  Uptime |-> Atoi(v.Uptime).n,
                  Memory |-> Atoi(v.Mem).n])

\* strings given for numeric fields: "", "7", "42", "-1", "x", "4x"
NumericStrings == {<<>>, <<55>>, <<52, 50>>, <<45, 49>>, <<120>>, <<52, 120>>}

\* the zero SystemStats and one holding values
ZeroSystemStats == [CPU |-> 0, Uptime |-> 0, Memory |-> 0]
PriorSystemStats == [CPU |-> 9, Uptime |-> 9, Memory |-> 9]

\* payloads of system-stats
SystemStatsInputs == [CPU : NumericStrings, Uptime : NumericStrings, Mem : NumericStrings]

InitDecodeSystemStats ==
    /\ dStat = StatTypeSystemStats
    /\ dIn \in SystemStatsInputs
    /\ dRecv \in {ZeroSystemStats, PriorSystemStats}

\* (*SystemStats).UnmarshalJSON
DecodeSystemStats ==
    /\ dPc = "call"
    /\ dStat = StatTypeSystemStats
    /\ dRes' = SystemStatsFromStrings(dIn, dRecv)
    /\ dPc' = "done"
    /\ UNCHANGED <<dStat, dIn, dRecv>>
    /\ UNCHANGED <<statsVars, codecVars, frameVars, ipVars>>

\* the orders in which a range loop may visit the keys S of a map
Orders(S) ==
    {o \in [1..Cardinality(S) -> S] : \A i, j \in DOMAIN o : o[i] = o[j] => i = j}

\* the index of the first element of the sequence of outcomes rs that is a
\* panic or an error, 0 when there is none
FirstFault(rs) ==
    LET bad == {j \in DOMAIN rs : rs[j].panic \/ rs[j].err # NilError}
    IN  IF bad = {} THEN 0 ELSE CHOOSE j \in bad : \A i \in bad : j <= i

\* the loop over ss (stat.go 174-187): the integers of the numeric strings,
\* 0 for an empty one, or the error of the first one Atoi rejects
IntsOf(ss) ==
    LET rs == [j \in DOMAIN ss |->
                  IF ss[j] = <<>> THEN [panic |-> FALSE, err |-> NilError, n |-> 0]
                  ELSE [panic |-> FALSE, err |-> Atoi(ss[j]).err, n |-> Atoi(ss[j]).n]]
    IN  IF FirstFault(rs) = 0
        THEN [err |-> NilError, ints |-> [j \in DOMAIN ss |-> rs[j].n]]
        ELSE [err |-> rs[FirstFault(rs)].err, ints |-> <<>>]

\* the MAC of an interface (stat.go 189-196): nil for the empty string
MACOf(str) ==
    IF str = <<>> THEN [err |-> NilError, mac |-> <<>>]
    ELSE [err |-> ParseMAC(str).err, mac |-> ParseMAC(str).mac]

\* the switch as it would be without `if v != ""` in its string case
AddressesOfEveryString(a) ==
    IF a.kind = "slice"
    THEN LET rs == [j \in DOMAIN a.elems |->
                       IF ~a.elems[j].isString
                       THEN [panic |-> TRUE, err |-> NilError, ip |-> NilIP]
                       ELSE [panic |-> FALSE,
                             err |-> ParseCIDR(a.elems[j].s).err,
                             ip |-> ParseCIDR(a.elems[j].s).ip]]
         IN  IF FirstFault(rs) = 0
             THEN [panic |-> FALSE, err |-> NilError,
                   ips |-> [j \in DOMAIN rs |-> rs[j].ip]]
             ELSE [panic |-> rs[FirstFault(rs)].panic, err |-> rs[FirstFault(rs)].err,
                   ips |-> <<>>]
    ELSE IF a.kind = "string"
    THEN [panic |-> FALSE, err |-> ParseCIDR(a.s).err,
          ips |-> IF ParseCIDR(a.s).ok THEN <<ParseCIDR(a.s).ip>> ELSE <<>>]
    ELSE [panic |-> FALSE, err |-> NilError, ips |-> <<>>]

\* the switch on the kind of vv.Addresses (stat.go 200-218): a slice is
\* walked and ip.(string) panics on an element that is no string; a
\* non-empty string is parsed; any other kind gives no address
AddressesOf(a) ==
    IF a.kind = "slice"
    THEN LET rs == [j \in DOMAIN a.elems |->
                       IF ~a.elems[j].isString
                       THEN [panic |-> TRUE, err |-> NilError, ip |-> NilIP]
                       ELSE [panic |-> FALSE,
                             err |-> ParseCIDR(a.elems[j].s).err,
                             ip |-> ParseCIDR(a.elems[j].s).ip]]
         IN  IF FirstFault(rs) = 0
             THEN [panic |-> FALSE, err |-> NilError,
                   ips |-> [j \in DOMAIN rs |-> rs[j].ip]]
             ELSE [panic |-> rs[FirstFault(rs)].panic, err |-> rs[FirstFault(rs)].err,
                   ips |-> <<>>]
    ELSE IF a.kind = "string" /\ a.s # <<>>
    THEN [panic |-> FALSE, err |-> ParseCIDR(a.s).err,
          ips |-> IF ParseCIDR(a.s).ok THEN <<ParseCIDR(a.s).ip>> ELSE <<>>]
    ELSE [panic |-> FALSE, err |-> NilError, ips |-> <<>>]

\* the *Interface appended for the key k and the value vv
NewInterface(k, vv, ints, mac, ips) ==
    [Name |-> k,
     Up |-> (vv.Up = <<116, 114, 117, 101>>),
     Autonegotiation |-> (vv.Autoneg = <<116, 114, 117, 101>>),
     Duplex |-> vv.Duplex,
     Speed |-> ints[1],
     MAC |-> mac,
     MTU |-> ints[2],
     Addresses |-> ips,
     Stats |-> SubSeq(ints, 3, 13)]

\* one round of the loop over v (stat.go 157-243)
InterfaceOf(k, vv) ==
    IF IntsOf(vv.ss).err # NilError
    THEN [panic |-> FALSE, err |-> IntsOf(vv.ss).err, elem |-> <<>>]
    ELSE IF MACOf(vv.MAC).err # NilError
    THEN [panic |-> FALSE, err |-> MACOf(vv.MAC).err, elem |-> <<>>]
    ELSE IF AddressesOf(vv.Addresses).panic \/ AddressesOf(vv.Addresses).err # NilError
    THEN [panic |-> AddressesOf(vv.Addresses).panic,
          err |-> AddressesOf(vv.Addresses).err, elem |-> <<>>]
    ELSE [panic |-> FALSE, err |-> NilError,
          elem |-> NewInterface(k, vv, IntsOf(vv.ss).ints, MACOf(vv.MAC).mac,
                                AddressesOf(vv.Addresses).ips)]

\* the outcome of a loop whose rounds gave rs, followed by sort.Sort with
\* the sort.Interface by and the assignment to the receiver
Collected(rs, by, recv) ==
    IF FirstFault(rs) = 0
    THEN Decoded(Sort([j \in DOMAIN rs |-> rs[j].elem], by))
    ELSE IF rs[FirstFault(rs)].panic THEN Panicked(recv)
    ELSE Failed(rs[FirstFault(rs)].err, recv)

\* Interfaces.UnmarshalJSON past json.Unmarshal: v is the map, order the
\* order in which the range loop visits its keys, i the receiver
InterfacesFromMap(v, order, i) ==
    Collected([j \in DOMAIN order |-> InterfaceOf(order[j], v[order[j]])],
              "byInterfaceName", i)

\* interface names: "eth0", "eth1", "eth10", "Eth"
InterfaceNames ==
    {<<101, 116, 104, 48>>, <<101, 116, 104, 49>>, <<101, 116, 104, 49, 48>>,
     <<69, 116, 104>>}

\* an interface value of v whose numeric strings are all empty
EmptyInterface ==
    [Up |-> <<>>, Autoneg |-> <<>>, Duplex |-> <<>>, MAC |-> <<>>,
     Addresses |-> [kind |-> "nil"], ss |-> [j \in 1..13 |-> <<>>]]

\* "true", "de:ad:be:ef:de:ad", "10.0.0.1/8", "2001:db8::1/64", "foo"
TextTrue == <<116, 114, 117, 101>>
TextMAC == <<100, 101, 58, 97, 100, 58, 98, 101, 58, 101, 102, 58, 100, 101, 58, 97, 100>>
TextCIDR4 == <<49, 48, 46, 48, 46, 48, 46, 49, 47, 56>>
TextCIDR6 == <<50, 48, 48, 49, 58, 100, 98, 56, 58, 58, 49, 47, 54, 52>>
TextFoo == <<102, 111, 111>>

\* a fully filled interface value of v
FullInterface ==
    [Up |-> TextTrue, Autoneg |-> TextTrue, Duplex |-> <<102, 117, 108, 108>>,
     MAC |-> TextMAC, Addresses |-> [kind |-> "string", s |-> TextCIDR4],
     ss |-> [j \in 1..13 |-> <<48 + (j % 10)>>]]

\* interface values of v: filled and empty ones, one numeric string not a
\* number, a bad MAC, addresses as a slice, as a slice holding a number, as
\* a string that is no CIDR
InterfaceValues ==
    { FullInterface,
      EmptyInterface,
      [FullInterface EXCEPT !.ss[5] = <<120>>],
      [EmptyInterface EXCEPT !.ss[13] = <<52, 120>>],
      [FullInterface EXCEPT !.MAC = TextFoo],
      [FullInterface EXCEPT !.Addresses =
           [kind |-> "slice",
            elems |-> <<[isString |-> TRUE, s |-> TextCIDR4],
                        [isString |-> TRUE, s |-> TextCIDR6]>>]],
      [EmptyInterface EXCEPT !.Addresses =
           [kind |-> "slice", elems |-> <<[isString |-> FALSE, s |-> <<>>]>>]],
      [EmptyInterface EXCEPT !.Addresses = [kind |-> "string", s |-> TextFoo]] }

\* maps with at most n keys of K and values of V
MapsWithin(K, V, n) ==
    UNION {[D -> V] : D \in {D \in SUBSET K : Cardinality(D) <= n}}

\* payloads of interfaces
InterfacesInputs == MapsWithin(InterfaceNames, InterfaceValues, MaxIfaces)

\* the nil Interfaces and one holding an interface
PriorInterfaces == <<InterfaceOf(TextFoo, FullInterface).elem>>

InitDecodeInterfaces ==
    /\ dStat = StatTypeInterfaces
    /\ dIn \in InterfacesInputs
    /\ dRecv \in {<<>>, PriorInterfaces}

\* "", "10.0.0.1/8", "2001:db8::1/64", "foo", "10.0.0.1": what a string of
\* addresses may hold
AddressTexts ==
    {<<>>, TextCIDR4, TextCIDR6, TextFoo, <<49, 48, 46, 48, 46, 48, 46, 49>>}

\* the shapes of addresses: absent, a string, an array of one string or of
\* two, an array holding a number
AddressShapes ==
    {[kind |-> "nil"]}
    \cup {[kind |-> "string", s |-> t] : t \in AddressTexts}
    \cup {[kind |-> "slice", elems |-> <<[isString |-> TRUE, s |-> t]>>] :
              t \in AddressTexts}
    \cup {[kind |-> "slice",
           elems |-> <<[isString |-> TRUE, s |-> TextCIDR4],
                       [isString |-> TRUE, s |-> t]>>] : t \in AddressTexts}
    \cup {[kind |-> "slice", elems |-> <<[isString |-> FALSE, s |-> <<>>]>>]}

\* payloads of interfaces "eth0" and "eth1" with addresses of every shape
ShapeInputs ==
    MapsWithin({<<101, 116, 104, 48>>, <<101, 116, 104, 49>>},
               {[EmptyInterface EXCEPT !.Addresses = a] : a \in AddressShapes},
               MaxIfaces)

InitDecodeShapes ==
    /\ dStat = StatTypeInterfaces
    /\ dIn \in ShapeInputs
    /\ dRecv \in {<<>>, PriorInterfaces}

\* (*Interfaces).UnmarshalJSON, the range loop visiting the keys in any
\* order
DecodeInterfaces ==
    /\ dPc = "call"
    /\ dStat = StatTypeInterfaces
    /\ \E order \in Orders(DOMAIN dIn) :
           dRes' = InterfacesFromMap(dIn, order, dRecv)
    /\ dPc' = "done"
    /\ UNCHANGED <<dStat, dIn, dRecv>>
    /\ UNCHANGED <<statsVars, codecVars, frameVars, ipVars>>

\* one round of the inner loop of DPIStats.UnmarshalJSON (stat.go 298-332)
\* for the address ip, the inner key statType and its value vv
DPIStatOf(ip, statType, vv) ==
    LET nameCat == SplitFirst(statType, 124)
    IN  IF Len(nameCat) # 2
        THEN [panic |-> FALSE, elem |-> <<>>,
              err |-> [kind |-> "invalid stat type", text |-> statType]]
        ELSE IF ~Atoi(vv.RXBytes).ok
        THEN [panic |-> FALSE, elem |-> <<>>, err |-> Atoi(vv.RXBytes).err]
        ELSE IF ~Atoi(vv.RXRate).ok
        THEN [panic |-> FALSE, elem |-> <<>>, err |-> Atoi(vv.RXRate).err]
        ELSE IF ~Atoi(vv.TXBytes).ok
        THEN [panic |-> FALSE, elem |-> <<>>, err |-> Atoi(vv.TXBytes).err]
        ELSE IF ~Atoi(vv.TXRate).ok
        THEN [panic |-> FALSE, elem |-> <<>>, err |-> Atoi(vv.TXRate).err]
        ELSE [panic |-> FALSE, err |-> NilError,
              elem |-> [IP |-> ip,
                        Type |-> nameCat[1],
                        Category |-> nameCat[2],
                        ReceiveBytes |-> Atoi(vv.RXBytes).n,
                        ReceiveRate |-> Atoi(vv.RXRate).n,
                        TransmitBytes |-> Atoi(vv.TXBytes).n,
                        TransmitRate |-> Atoi(vv.TXRate).n]]

\* the rounds of loops that fail on an outer key that is no IP address
DPIRoundsStrict(v, order) ==
    [j \in DOMAIN order |->
        IF ParseIP(order[j][1]) = NilIP
        THEN [panic |-> FALSE, elem |-> <<>>,
              err |-> [kind |-> "invalid IP", text |-> order[j][1]]]
        ELSE DPIStatOf(ParseIP(order[j][1]), order[j][2], v[order[j][1]][order[j][2]])]

\* the rounds of the two loops in the order they run: order lists the
\* pairs <<statIP, statType>> of v, the pairs of one statIP together; an
\* outer key that is no IP address is passed over
RECURSIVE DPIRounds(_, _)
DPIRounds(v, order) ==
    IF order = <<>> THEN <<>>
    ELSE LET statIP == order[1][1]
             statType == order[1][2]
         IN  (IF ParseIP(statIP) = NilIP THEN <<>>
              ELSE <<DPIStatOf(ParseIP(statIP), statType, v[statIP][statType])>>)
             \o DPIRounds(v, Tail(order))

\* DPIStats.UnmarshalJSON past json.Unmarshal: v is the map of maps, order
\* the order in which the loops visit it, d the receiver
DPIStatsFromMap(v, order, d) == Collected(DPIRounds(v, order), "byIPAndType", d)

\* the pairs <<statIP, statType>> in the order the loops visit them: the
\* outer keys in the order o, the inner keys of k in the order io[k]
RECURSIVE VisitOrder(_, _)
VisitOrder(o, io) ==
    IF o = <<>> THEN <<>>
    ELSE [j \in 1..Len(io[o[1]]) |-> <<o[1], io[o[1]][j]>>] \o VisitOrder(Tail(o), io)

\* every order in which the two range loops may visit v
DPIOrders(v) ==
    LET inner == {io \in [DOMAIN v -> UNION {Orders(DOMAIN v[k]) : k \in DOMAIN v}] :
                     \A k \in DOMAIN v : io[k] \in Orders(DOMAIN v[k])}
    IN  {VisitOrder(x[1], x[2]) : x \in Orders(DOMAIN v) \X inner}

\* outer keys: "10.1.0.0", "10.0.0.1", "2001:db8::1", "foo"
StatIPs ==
    {<<49, 48, 46, 49, 46, 48, 46, 48>>, <<49, 48, 46, 48, 46, 48, 46, 49>>,
     <<50, 48, 48, 49, 58, 100, 98, 56, 58, 58, 49>>, TextFoo}

\* inner keys: "a|x", "b|x", "a", "a|b|c"
StatTypeKeys ==
    {<<97, 124, 120>>, <<98, 124, 120>>, <<97>>, <<97, 124, 98, 124, 99>>}

\* inner values: four numbers; rx_rate "x"; tx_rate missing
DPIValues ==
    LET good == [RXBytes |-> <<49>>, RXRate |-> <<50>>, TXBytes |-> <<51>>,
                 TXRate |-> <<52>>]
    IN  {good, [good EXCEPT !.RXRate = <<120>>], [good EXCEPT !.TXRate = <<>>]}

\* the map of maps holding the value val[c] at each pair c of cells
MapOfMaps(cells, val) ==
    [k \in {c[1] : c \in cells} |->
        [t \in {c[2] : c \in {c \in cells : c[1] = k}} |-> val[<<k, t>>]]]

\* payloads of export: at most MaxCells inner entries in all
DPIStatsInputs ==
    UNION {{MapOfMaps(cells, val) : val \in [cells -> DPIValues]} :
              cells \in {c \in SUBSET (StatIPs \X StatTypeKeys) :
                             Cardinality(c) <= MaxCells}}

\* a DPIStats holding one element
PriorDPIStats ==
    <<DPIStatOf(ParseIP(<<49, 48, 46, 48, 46, 48, 46, 49>>), <<97, 124, 120>>,
                [RXBytes |-> <<49>>, RXRate |-> <<50>>, TXBytes |-> <<51>>,
                 TXRate |-> <<52>>]).elem>>

InitDecodeDPIStats ==
    /\ dStat = StatTypeDPIStats
    /\ dIn \in DPIStatsInputs
    /\ dRecv \in {<<>>, PriorDPIStats}

\* (*DPIStats).UnmarshalJSON, the range loops visiting the keys in any
\* order
DecodeDPIStats ==
    /\ dPc = "call"
    /\ dStat = StatTypeDPIStats
    /\ \E order \in DPIOrders(dIn) : dRes' = DPIStatsFromMap(dIn, order, dRecv)
    /\ dPc' = "done"
    /\ UNCHANGED <<dStat, dIn, dRecv>>
    /\ UNCHANGED <<statsVars, codecVars, frameVars, ipVars>>

(***************************************************************************)
(* Specifications.                                                         *)
(***************************************************************************)
Init == InitStats /\ InitCodecIdle /\ InitPureIdle

Next ==
    \/ \E arg \in StatsArgs : StatsStart(arg)
    \/ DialOK
    \/ DialFail
    \/ SubscribeOK
    \/ SubscribeFail
    \/ HeartbeatOK
    \/ HeartbeatFail
    \/ KeepaliveTimer
    \/ KeepaliveDone
    \/ DoneStart
    \/ DoneAgain
    \/ WaitKeepalive
    \/ RecvErr
    \/ UnsubscribeOK
    \/ UnsubscribeFail
    \/ CloseOK
    \/ CloseFail
    \/ StopCollector
    \/ WaitCollector
    \/ CloseStatC
    \/ CollectCheck
    \/ ReceiveError
    \/ \E m \in Frames : ReceiveFrame(m)
    \/ ReceiveEmpty
    \/ \E k \in FrameKeys : CollectEntry(k)
    \/ RangeDone
    \/ ConsumerReceive

\* one streaming session: Stats, the two goroutines, the consumer and done
Spec == Init /\ [][Next]_vars

\* the codec applied to every request of Requests
InitRoundTrip == InitStats /\ jar = <<>> /\ InitCodec /\ InitPureIdle
NextRoundTrip == Marshal \/ Unmarshal
SpecCodec == InitRoundTrip /\ [][NextRoundTrip]_vars

\* wsUnmarshal applied to every buffer of Buffers
InitUnframe ==
    InitStats /\ jar = <<>> /\ InitCodecIdle /\ InitFrames /\ InitIPIdle /\ InitDecodeIdle
NextUnframe == UnmarshalFramed \/ UnmarshalBare
SpecUnframe == InitUnframe /\ [][NextUnframe]_vars

\* ipLess applied to every pair of Addresses
InitLess ==
    InitStats /\ jar = <<>> /\ InitCodecIdle /\ InitFramesIdle /\ InitIP /\ InitDecodeIdle
NextLess == CallIPLess
SpecLess == InitLess /\ [][NextLess]_vars

\* the three decoders applied to every payload drawn for them
InitDecode ==
    /\ InitStats /\ jar = <<>> /\ InitCodecIdle /\ InitFramesIdle /\ InitIPIdle
    /\ dRes = [panic |-> FALSE, err |-> NilError, recv |-> <<>>]
    /\ dPc = "call"
    /\ (InitDecodeSystemStats \/ InitDecodeInterfaces \/ InitDecodeDPIStats)
NextDecode == DecodeSystemStats \/ DecodeInterfaces \/ DecodeDPIStats
SpecDecode == InitDecode /\ [][NextDecode]_vars

\* Interfaces.UnmarshalJSON applied to addresses of every shape
InitShapes ==
    /\ InitStats /\ jar = <<>> /\ InitCodecIdle /\ InitFramesIdle /\ InitIPIdle
    /\ dRes = [panic |-> FALSE, err |-> NilError, recv |-> <<>>]
    /\ dPc = "call"
    /\ InitDecodeShapes
NextShapes == DecodeInterfaces
SpecShapes == InitShapes /\ [][NextShapes]_vars

\* the scheduling the Go runtime gives: a runnable goroutine runs, an HTTP
\* request and a socket write or close complete, a select with a ready case
\* takes it, and a receive on a closed connection returns. Nothing obliges
\* the caller to invoke done, the device to send, or the consumer to receive.
Fairness ==
    /\ WF_vars(DialFail \/ DialOK \/ SubscribeFail \/ SubscribeOK
               \/ WaitKeepalive \/ RecvErr \/ UnsubscribeFail \/ UnsubscribeOK
               \/ CloseOK \/ CloseFail \/ StopCollector \/ WaitCollector
               \/ CloseStatC)
    /\ WF_vars(HeartbeatOK \/ HeartbeatFail)
    /\ SF_vars(KeepaliveDone)
    /\ WF_vars(CollectCheck \/ (sock = "closed" /\ ReceiveError) \/ RangeDone
               \/ \E k \in FrameKeys : CollectEntry(k))

SpecFair == Spec /\ Fairness

(***************************************************************************)
(* Claims.                                                                 *)
(***************************************************************************)
\* C1: a keepalive failure is held until shutdown: once a heartbeat request
\* has failed and the caller has invoked done, done returns, and it returns
\* the keepalive error (the process not having panicked meanwhile).
C1_KeepaliveErrorSurfacesAtShutdown ==
    (pcK = "sendErr" /\ pcMain = "waitKeepalive")
        ~> ((pcMain = "returned" /\ doneErr = "keepalive") \/ crashed)

\* C2: when Stats has returned the error of a failed dial or subscribe send,
\* no partial session is running: neither the keepalive goroutine nor the
\* collector goroutine is alive, so no heartbeat is issued any more.
C2_NoPartialSessionAfterFailedStart ==
    pcMain = "startFailed" =>
        /\ pcK \in {"none", "done"}
        /\ pcC \in {"none", "done"}

\* C3: done, invoked while streaming with no keepalive error captured,
\* eventually returns, whatever the collector was doing (a keepalive error
\* captured later, or a panic, is outside the claim).
C3_ShutdownReturns ==
    (pcMain = "waitKeepalive" /\ pcK # "sendErr")
        ~> (pcMain = "returned" \/ pcK = "sendErr" \/ crashed)

\* C4: a successful done sends exactly one frame after the subscribe frame
\* (the unsubscribe frame), then closes the socket, then closes statC: no
\* frame is ever written to a socket that is not open, the socket is closed
\* only after the unsubscribe frame was sent, statC is closed only after the
\* socket was closed, and when done has returned nil all three have happened.
C4_UnsubscribeThenCloseThenStream ==
    [][ /\ Len(wire') <= 2
        /\ Len(wire') > Len(wire) => (sock = "open" /\ sock' = "open")
        /\ (sock = "open" /\ sock' = "closed") =>
               (Len(wire) = 2 /\ statC = "open" /\ statC' = "open")
        /\ (statC # "closed" /\ statC' = "closed") =>
               (sock = "closed" /\ Len(wire) = 2)
        /\ statC = "closed" => statC' = "closed"
        /\ (pcMain' = "returned" /\ doneErr' = "nil") =>
               (Len(wire') = 2 /\ sock' = "closed" /\ statC' = "closed")
      ]_vars

C4_Witness ==
    /\ pcMain = "returned"
    /\ doneErr = "nil"
    /\ Len(wire) = 2
    /\ sock = "closed"
    /\ statC = "closed"

\* C5: of the frame being ranged over, the Stats handed to the consumer (and
\* the one being sent) are exactly the visited entries with a recognized key
\* and a payload that decodes, one each and under the entry's key; and while
\* such an entry of the frame is still unvisited the loop is still running
\* and will come to it, no other entry having ended the loop.
C5_EveryDecodableEntryPublished ==
    LET visited == DOMAIN frame \ remaining
        good == {k \in visited : k \in StatTypes /\ frame[k] = "valid"}
        sent == IF pending = NoStat THEN published
                ELSE Append(published, pending)
    IN  /\ {StatType(sent[i].kind) : i \in 1..Len(sent)} = good
        /\ Len(sent) = Cardinality(good)
        /\ (\E k \in remaining : k \in StatTypes /\ frame[k] = "valid") =>
               (~crashed /\ pcC \in {"range", "publish"})

\* C6: a receive that fails sends the collector back to its stop check with
\* nothing published, the stop check goes on to another receive unless the
\* stop signal is raised, and the collector loop ends in no other way than
\* by its stop check observing the stop signal.
C6_ReceiveFailureNeverEndsLoop ==
    [][ /\ (pcC = "recv" /\ pcC' # "recv") =>
               /\ pcC' \in {"check", "range"}
               /\ pcC' = "check" => UNCHANGED <<published, pending, statC>>
        /\ (pcC = "check" /\ pcC' # "check") =>
               pcC' = (IF wsDoneC THEN "done" ELSE "recv")
        /\ ((pcC # "done" /\ ~crashed) /\ (pcC' = "done" \/ crashed')) =>
               (pcC = "check" /\ wsDoneC /\ ~crashed')
      ]_vars

\* C7: statC is a rendezvous: the collector leaves the range loop for its
\* stop check and the next receive only when every Stat decoded from the
\* frame has been received by the consumer (none in flight, none dropped),
\* and at the stop check or in a receive it holds no frame; and while
\* the collector is blocked sending to a consumer, the keepalive loop can
\* take its next step: issue the heartbeat request it is at, or let its
\* five-second timer fire and loop to the next request.
C7_RendezvousAndIndependentKeepalive ==
    /\ pcC \in {"check", "recv", "done"} =>
           (pending = NoStat /\ remaining = {} /\ frame = NoFrame)
    /\ (pcC = "range" /\ remaining = {}) =>
           /\ pending = NoStat
           /\ Len(published) =
                  Cardinality({k \in DOMAIN frame :
                                   k \in StatTypes /\ frame[k] = "valid"})
    /\ (~crashed /\ pcC = "publish" /\ pcK = "request") => ENABLED HeartbeatOK
    /\ (~crashed /\ pcC = "publish" /\ pcK = "select") => ENABLED KeepaliveTimer

C7_Witness ==
    /\ pcC = "publish"
    /\ pcK = "select"
    /\ pcMain = "streaming"
    /\ published # <<>>

\* C8: when Stats has returned without error, the one frame on the socket
\* decodes to a request whose Subscribe names the requested stat types in
\* the order requested (export, interfaces, system-stats when the argument
\* was nil), whose Unsubscribe is nil and whose SessionID is the value of the
\* first cookie named PHPSESSID ("" without one); it is the only frame sent
\* until done sends the unsubscribe frame, nothing is sent before it, and
\* the collector is not started before it is sent.
C8_SubscribeFrame ==
    LET requested == IF statsArg.nil
                     THEN <<StatTypeDPIStats, StatTypeInterfaces,
                            StatTypeSystemStats>>
                     ELSE statsArg.elems
        ids == {i \in 1..Len(jar) : jar[i].Name = sessionCookie}
        session == IF ids = {} THEN <<>>
                   ELSE jar[CHOOSE i \in ids : \A j \in ids : i <= j].Value
    IN  /\ (pcMain = "streaming" /\ statsErr = "nil") =>
               /\ Len(wire) = 1
               /\ wsUnmarshal(wire[1], ZeroRequest) =
                      [panic |-> FALSE,
                       err |-> NoError,
                       v |-> [Subscribe |->
                                  Slice([i \in 1..Len(requested) |->
                                             [Name |-> requested[i]]]),
                              Unsubscribe |-> NilSlice,
                              SessionID |-> session]]
        /\ pcMain \in {"idle", "dial", "subscribe", "startFailed"} =>
               wire = <<>>
        /\ pcMain \in {"streaming", "waitKeepalive", "recvErr", "unsubscribe"} =>
               Len(wire) = 1
        /\ pcC # "none" => Len(wire) >= 1

C8_Witness ==
    /\ pcMain = "streaming"
    /\ statsErr = "nil"
    /\ statsArg.nil
    /\ Len(jar) = 3
    /\ jar[2].Name = sessionCookie
    /\ jar[3].Name = sessionCookie
    /\ Len(wire) = 1

\* C9: when done has sent its unsubscribe frame, the second frame on the
\* socket, that frame decodes to a request whose Unsubscribe holds the names
\* of the subscribe frame's Subscribe in the same order, whose Subscribe is
\* nil and whose SessionID is that of the subscribe frame.
C9_UnsubscribeFrame ==
    (pcMain = "close" /\ Len(wire) = 2) =>
        LET s == wsUnmarshal(wire[1], ZeroRequest)
            u == wsUnmarshal(wire[2], ZeroRequest)
        IN  /\ ~s.panic /\ s.err = NoError
            /\ ~u.panic /\ u.err = NoError
            /\ ~u.v.Unsubscribe.nil
            /\ u.v.Unsubscribe.elems = s.v.Subscribe.elems
            /\ u.v.Subscribe = NilSlice
            /\ u.v.SessionID = s.v.SessionID

C9_Witness ==
    /\ Len(wire) = 2
    /\ pcMain = "close"
    /\ Len(sub.Unsubscribe.elems) = 3
    /\ sub.SessionID # <<>>

\* whether the bytes of s from position i on are valid UTF-8
RECURSIVE ValidUTF8From(_, _)
ValidUTF8From(s, i) ==
    \/ i > Len(s)
    \/ /\ RuneSize(s, i) > 0
       /\ ValidUTF8From(s, i + RuneSize(s, i))

\* whether every string of request r is valid UTF-8
ValidUTF8Request(r) ==
    /\ ValidUTF8From(r.SessionID, 1)
    /\ \A i \in 1..Len(r.Subscribe.elems) :
           ValidUTF8From(r.Subscribe.elems[i].Name, 1)
    /\ \A i \in 1..Len(r.Unsubscribe.elems) :
           ValidUTF8From(r.Unsubscribe.elems[i].Name, 1)

\* the number a sequence of decimal digits denotes, -1 when it is not one
RECURSIVE DecimalValue(_)
DecimalValue(ds) ==
    IF ds = <<>> THEN -1
    ELSE IF ds[Len(ds)] < 48 \/ ds[Len(ds)] > 57 THEN -1
    ELSE IF Len(ds) = 1 THEN ds[1] - 48
    ELSE IF DecimalValue(SubSeq(ds, 1, Len(ds) - 1)) < 0 THEN -1
    ELSE 10 * DecimalValue(SubSeq(ds, 1, Len(ds) - 1)) + (ds[Len(ds)] - 48)

\* the frame wsMarshal returned carries tag 0 and no error, and the decimal
\* number before its first newline is the length of what follows the newline
FramedWithLength ==
    /\ ~cbuf.err
    /\ cbuf.payloadType = 0
    /\ IndexNewline(cbuf.data, 1) > 1
    /\ DecimalValue(SubSeq(cbuf.data, 1, IndexNewline(cbuf.data, 1) - 1))
           = Len(cbuf.data) - IndexNewline(cbuf.data, 1)

\* C10 as stated: for every request, wsUnmarshal of the frame wsMarshal
\* returns yields the request, the tag is 0 and the decimal prefix is the
\* byte length of the JSON body.
C10_RoundTripEveryRequest ==
    /\ cpc \in {"unmarshal", "done"} => FramedWithLength
    /\ cpc = "done" =>
           cout = [panic |-> FALSE, err |-> NoError, v |-> creq]

\* C10 amended: for every request the tag is 0 and the decimal prefix is the
\* byte length of the JSON body; for every request whose names and session
\* identifier are valid UTF-8, wsUnmarshal of the frame yields the request.
C10_RoundTripValidUTF8 ==
    /\ cpc \in {"unmarshal", "done"} => FramedWithLength
    /\ (cpc = "done" /\ ValidUTF8Request(creq)) =>
           cout = [panic |-> FALSE, err |-> NoError, v |-> creq]

C10_Witness ==
    /\ cpc = "done"
    /\ ValidUTF8Request(creq)
    /\ Len(creq.Subscribe.elems) = 1
    /\ creq.Subscribe.elems[1].Name = <<34>>
    /\ creq.SessionID = <<60>>
    /\ cout.v = creq

\* the number of newline-delimited segments of a buffer
Segments(b) == Cardinality({i \in DOMAIN b : b[i] = 10}) + 1

\* the call wsUnmarshal(fbuf) has returned, fbuf not starting with "{"
FramedCall == fpc # "framed" /\ fbuf # <<>> /\ fbuf[1] # 123

\* C11 as stated: every buffer not starting with "{" that does not consist
\* of exactly two newline-delimited segments fails with the count error
\* naming its number of segments.
C11_CountErrorUnlessTwoSegments ==
    (FramedCall /\ Segments(fbuf) # 2)
        => fres.err = CountError(Segments(fbuf))

\* C11: a non-empty buffer not starting with "{" fails with the count error
\* exactly when it holds no newline; the count named is then 1 and the
\* destination is left as passed in. A buffer with two or more newlines is
\* split at the first one only and never gets the count error.
C11_CountErrorIffNoNewline ==
    FramedCall =>
        /\ ~fres.panic
        /\ (fres.err.kind = CountError(1).kind) <=> (Segments(fbuf) = 1)
        /\ Segments(fbuf) = 1 => (fres.err = CountError(1) /\ fres.v = fout)

C11_Witness ==
    /\ FramedCall
    /\ Len(fbuf) > 1
    /\ Segments(fbuf) = 1
    /\ fout = PriorRequest
    /\ fres = [panic |-> FALSE, err |-> CountError(1), v |-> PriorRequest]

\* a header, a newline, and nothing else
HeaderOnly(b) == Len(b) >= 1 /\ b[Len(b)] = 10 /\ Segments(b) = 2

\* C12 as stated: a buffer made of any header and a newline decodes without
\* error and leaves the destination exactly as it was passed in.
C12_HeaderOnlyAnyHeader ==
    (fpc # "framed" /\ HeaderOnly(fbuf))
        => fres = [panic |-> FALSE, err |-> NoError, v |-> fout]

\* C12: a buffer made of a header that does not begin with "{" (the empty
\* header included) and a newline decodes without error and leaves the
\* destination exactly as it was passed in.
C12_HeaderOnlyLeavesOutput ==
    (FramedCall /\ HeaderOnly(fbuf))
        => fres = [panic |-> FALSE, err |-> NoError, v |-> fout]

C12_Witness ==
    /\ FramedCall
    /\ HeaderOnly(fbuf)
    /\ Len(fbuf) > 1
    /\ fout = PriorRequest
    /\ fres = [panic |-> FALSE, err |-> NoError, v |-> PriorRequest]

\* C13: decoding does not depend on the header. When the text before the
\* first newline does not start with "{" and the text after it does,
\* wsUnmarshal of the whole buffer returns what wsUnmarshal of the text after
\* the newline returns: the same error and the same destination value.
C13_HeaderIndependent ==
    (fpc = "done" /\ FramedCall /\ Segments(fbuf) >= 2
     /\ SplitN2(fbuf)[2] # <<>> /\ SplitN2(fbuf)[2][1] = 123)
        => fres = fbare

C13_Witness ==
    /\ fpc = "done"
    /\ fbuf = <<51, 10>> \o MarshalRequest(RequestOf("unsubscribe", <<<<34>>, <<195, 169>>>>)) \o <<10>>
    /\ fout = PriorRequest
    /\ fbare.err = NoError
    /\ fres = fbare
    /\ fres.v = RequestOf("unsubscribe", <<<<34>>, <<195, 169>>>>)

\* both addresses have a 4-byte form, or both are 16-byte addresses without
\* one
SameFamily(a, b) ==
    \/ To4(a) # NilIP /\ To4(b) # NilIP
    \/ Len(a) = IPv6len /\ Len(b) = IPv6len /\ To4(a) = NilIP /\ To4(b) = NilIP

\* the byte positions at which a and b, of one length, differ
Differing(a, b) == {i \in 1..Len(a) : a[i] # b[i]}

\* a is smaller than b at the first position where they differ
FirstDifferenceLess(a, b) ==
    /\ Differing(a, b) # {}
    /\ LET d == CHOOSE i \in Differing(a, b) : \A j \in Differing(a, b) : i <= j
       IN  a[d] < b[d]

\* C17: for two addresses of one family, ipLess(a, b) is true exactly when a
\* is smaller than b at the first byte position where they differ, and false
\* when no byte differs.
C17_FirstDifferingByteDecides ==
    (ipPc = "done" /\ SameFamily(ipA, ipB))
        => /\ ~ipRes.panic
           /\ ipRes.less = FirstDifferenceLess(Shorten(ipA), Shorten(ipB))

\* C18: ipLess(a, b) is true for an IPv4 address a (in its 4-byte or its
\* 16-byte form) and an IPv6-only address b, false the other way round, and
\* false when a and b are the same address or both nil.
C18_IPv4BeforeIPv6Irreflexive ==
    ipPc = "done" =>
        /\ (ipA \in IPv4Short \cup IPv4Long /\ ipB \in IPv6Only)
               => (~ipRes.panic /\ ipRes.less)
        /\ (ipA \in IPv6Only /\ ipB \in IPv4Short \cup IPv4Long)
               => (~ipRes.panic /\ ~ipRes.less)
        /\ ipA = ipB => (~ipRes.panic /\ ~ipRes.less)

C18_Witness ==
    /\ ipPc = "done"
    /\ ipA \in IPv6Only
    /\ ipB \in IPv4Long
    /\ ipRes = [panic |-> FALSE, less |-> FALSE]

\* a decoder has returned nil
DecodedOK(stat) ==
    dPc = "done" /\ dStat = stat /\ ~dRes.panic /\ dRes.err = NilError

\* C15: after a successful decode the Interfaces list holds exactly one
\* entry per key of the payload and its names ascend strictly, byte-wise,
\* in whatever order the keys were visited.
C15_InterfacesSortedByName ==
    DecodedOK(StatTypeInterfaces) =>
        /\ Len(dRes.recv) = Cardinality(DOMAIN dIn)
        /\ {dRes.recv[j].Name : j \in DOMAIN dRes.recv} = DOMAIN dIn
        /\ \A j \in 1..(Len(dRes.recv) - 1) :
               StringLess(dRes.recv[j].Name, dRes.recv[j + 1].Name)

C15_Witness ==
    /\ DecodedOK(StatTypeInterfaces)
    /\ dRecv = PriorInterfaces
    /\ Len(dRes.recv) = 2
    /\ dRes.recv[1].Name = <<101, 116, 104, 49>>
    /\ dRes.recv[2].Name = <<101, 116, 104, 49, 48>>
    /\ dRes.recv[2].Addresses = <<ParseIP(<<49, 48, 46, 48, 46, 48, 46, 49>>),
                                  ParseIP(<<50, 48, 48, 49, 58, 100, 98, 56, 58, 58, 49>>)>>

\* the order of addresses: an IPv4 address before an IPv6 address, two of
\* one family by their first differing byte
AddressLess(a, b) ==
    IF SameFamily(a, b) THEN FirstDifferenceLess(Shorten(a), Shorten(b))
    ELSE To4(a) # NilIP /\ To4(b) = NilIP

\* x belongs before y: a smaller IP, or the same IP and a smaller Type.
\* Only pairs of addresses whose order ipLess reports rightly count, so
\* that what is found is due to byIPAndType.Less alone.
SortsBefore(x, y) ==
    \/ /\ AddressLess(x.IP, y.IP)
       /\ ipLess(x.IP, y.IP).less
       /\ ~ipLess(y.IP, x.IP).less
    \/ x.IP = y.IP /\ StringLess(x.Type, y.Type)

\* C16: after a successful decode no entry of the DPIStats list is followed
\* by an entry with a smaller IP, or with an equal IP and a smaller Type, in
\* whatever order the keys were visited.
C16_DPIStatsSortedByIPThenType ==
    DecodedOK(StatTypeDPIStats) =>
        \A j \in 1..(Len(dRes.recv) - 1) : ~SortsBefore(dRes.recv[j + 1], dRes.recv[j])

\* the string is a decimal number: digits after an optional sign
IsNumber(str) ==
    IsDigits(IF str # <<>> /\ str[1] \in {43, 45} THEN Tail(str) ELSE str)

\* the numeric strings of an inner value of an export payload
DPINumbers(vv) == {vv.RXBytes, vv.RXRate, vv.TXBytes, vv.TXRate}

AddressKey(k) == ParseIP(k) # NilIP

\* the payload holds a numeric field that is no number (for interfaces: a
\* non-empty one); of an export payload every outer key counts when anyKey,
\* else those that are IP addresses
BadNumberUnder(anyKey) ==
    IF dStat = StatTypeSystemStats
    THEN \E str \in {dIn.CPU, dIn.Uptime, dIn.Mem} : ~IsNumber(str)
    ELSE IF dStat = StatTypeInterfaces
    THEN \E k \in DOMAIN dIn : \E j \in 1..13 :
             dIn[k].ss[j] # <<>> /\ ~IsNumber(dIn[k].ss[j])
    ELSE \E k \in DOMAIN dIn : (anyKey \/ AddressKey(k)) /\ \E t \in DOMAIN dIn[k] :
             \E str \in DPINumbers(dIn[k][t]) : ~IsNumber(str)

\* the payload holds no fault other than numeric strings: no bad MAC, no
\* addresses that fail to parse or are no strings, no inner key without "|"
OnlyNumberFaults ==
    IF dStat = StatTypeSystemStats THEN TRUE
    ELSE IF dStat = StatTypeInterfaces
    THEN \A k \in DOMAIN dIn :
             /\ MACOf(dIn[k].MAC).err = NilError
             /\ ~AddressesOf(dIn[k].Addresses).panic
             /\ AddressesOf(dIn[k].Addresses).err = NilError
    ELSE \A k \in DOMAIN dIn : \A t \in DOMAIN dIn[k] : IndexByte(t, 124, 1) # 0

\* C14 as stated: when any numeric field of the payload is a non-numeric
\* string, the decoder returns a numeric-parse error and the receiver is as
\* before. (A call that panics returns nothing and is left aside.)
C14_AnyBadNumberFailsDecode ==
    (dPc = "done" /\ BadNumberUnder(TRUE) /\ ~dRes.panic)
        => (dRes.err.kind = "strconv.Atoi" /\ dRes.recv = dRecv)

\* C14: when a numeric field is a non-numeric string (non-empty for
\* Interfaces; under an outer key that parses as an address for DPIStats),
\* the decoder never returns nil and never stores anything: the receiver is
\* as before, and the call returns an error or panics. The error is the
\* numeric-parse error of such a string whenever the payload holds no
\* other fault.
C14_BadNumberFailsDecode ==
    (dPc = "done" /\ BadNumberUnder(FALSE)) =>
        /\ dRes.recv = dRecv
        /\ dRes.panic \/ dRes.err # NilError
        /\ OnlyNumberFaults =>
               /\ ~dRes.panic
               /\ dRes.err.kind = "strconv.Atoi"
               /\ ~IsNumber(dRes.err.text)

C14_Witness ==
    /\ dPc = "done"
    /\ dStat = StatTypeDPIStats
    /\ Cardinality(DOMAIN dIn) = 2
    /\ BadNumberUnder(FALSE)
    /\ OnlyNumberFaults
    /\ dRecv = PriorDPIStats
    /\ dRes = Failed([kind |-> "strconv.Atoi", text |-> <<120>>], PriorDPIStats)

\* the decoder of export has returned
DPIReturned == dPc = "done" /\ dStat = StatTypeDPIStats

\* the pairs <<statIP, statType>> of the payload under outer keys that are
\* IP addresses
AddressCells ==
    {c \in (DOMAIN dIn) \X UNION {DOMAIN dIn[k] : k \in DOMAIN dIn} :
        AddressKey(c[1]) /\ c[2] \in DOMAIN dIn[c[1]]}

\* the number of "|" in a key
Separators(t) == Cardinality({i \in DOMAIN t : t[i] = 124})

\* every numeric string under an address key is a number
NumbersFine == ~BadNumberUnder(FALSE)

\* C19 as stated: an inner key without exactly one "|" (under an outer key
\* that is an IP address, all numbers being fine) makes the decode fail with
\* the error invalid stat type naming such a key.
C19_NotOneSeparatorFails ==
    (DPIReturned /\ NumbersFine /\ \E c \in AddressCells : Separators(c[2]) # 1)
        => /\ dRes.err.kind = "invalid stat type"
           /\ \E c \in AddressCells : Separators(c[2]) # 1 /\ dRes.err.text = c[2]

\* C19: an inner key without "|" under an outer key that is an IP address
\* makes the decode fail, nothing being stored, and with the error invalid
\* stat type naming such a key when all numbers are fine. When every such
\* key holds at least one "|" and all numbers are fine the decode succeeds,
\* and each entry has the text before the first "|" of its key as Type and
\* all the text after it, further "|" included, as Category.
C19_NoSeparatorFailsFirstSeparatorSplits ==
    DPIReturned =>
        /\ (\E c \in AddressCells : Separators(c[2]) = 0) =>
               /\ dRes.recv = dRecv
               /\ ~dRes.panic /\ dRes.err # NilError
               /\ NumbersFine =>
                      /\ dRes.err.kind = "invalid stat type"
                      /\ \E c \in AddressCells :
                             Separators(c[2]) = 0 /\ dRes.err.text = c[2]
        /\ (NumbersFine /\ \A c \in AddressCells : Separators(c[2]) >= 1) =>
               /\ ~dRes.panic /\ dRes.err = NilError
               /\ \A j \in DOMAIN dRes.recv :
                      /\ Separators(dRes.recv[j].Type) = 0
                      /\ \E c \in AddressCells :
                             c[2] = dRes.recv[j].Type \o <<124>> \o dRes.recv[j].Category

C19_Witness ==
    /\ DPIReturned
    /\ dRes.err = NilError
    /\ Len(dRes.recv) = 2
    /\ \E j \in 1..2 : /\ dRes.recv[j].Type = <<97>>
                        /\ dRes.recv[j].Category = <<98, 124, 99>>

\* C20: an outer key that is no IP address is dropped silently. Whatever
\* lies under such keys, the decode succeeds when the entries under the
\* other outer keys are fine, and the list then holds one entry for each
\* pair of an outer key that is an IP address and an inner key, and no
\* other entry.
C20_NonAddressKeyDropped ==
    DPIReturned =>
        /\ (NumbersFine /\ \A c \in AddressCells : Separators(c[2]) >= 1)
               => (~dRes.panic /\ dRes.err = NilError)
        /\ dRes.err = NilError =>
               /\ Len(dRes.recv) = Cardinality(AddressCells)
               /\ \A c \in AddressCells : \E j \in DOMAIN dRes.recv :
                      /\ dRes.recv[j].IP = ParseIP(c[1])
                      /\ dRes.recv[j].Type \o <<124>> \o dRes.recv[j].Category = c[2]

C20_Witness ==
    /\ DPIReturned
    /\ TextFoo \in DOMAIN dIn
    /\ <<97>> \in DOMAIN dIn[TextFoo]
    /\ dIn[TextFoo][<<97>>].RXRate = <<120>>
    /\ Cardinality(AddressCells) = 1
    /\ dRecv = PriorDPIStats
    /\ dRes.err = NilError
    /\ Len(dRes.recv) = 1
    /\ dRes.recv[1].IP # PriorDPIStats[1].IP

\* the keepalive loop issues a heartbeat call: it leaves its select for
\* c.do
HeartbeatStarts == pcK # "request" /\ pcK' = "request"

\* the collector loop calls wsCodec.Receive
ReceiveStarts == pcC # "recv" /\ pcC' = "recv"

\* the collector loop starts sending a Stat on statC
PublishStarts == pcC # "publish" /\ pcC' = "publish"

\* C21: once the doneC of a loop is closed that loop starts no further
\* blocking operation: the keepalive loop issues no heartbeat call, and the
\* collector loop starts no socket receive and no send on statC.
C21_NoBlockingOperationAfterStop ==
    [][/\ kaDoneC => ~HeartbeatStarts
       /\ wsDoneC => ~ReceiveStarts /\ ~PublishStarts]_vars

\* the done closure has returned
DoneReturned == pcMain = "returned"

\* what done is there to clean up: both loops over, the connection and
\* statC closed
CleanedUp ==
    /\ pcK = "done"
    /\ pcC = "done"
    /\ sock = "closed"
    /\ statC = "closed"

\* C22: whenever done has returned, with an error or without, both loops
\* have terminated, the socket is closed and statC is closed.
C22_ReturnMeansCleanedUp == DoneReturned => CleanedUp

\* a step closes statC
StatCCloses == statC # "closed" /\ statC' = "closed"

\* C23: the collector never sends on statC after it has been closed. statC
\* is closed only when collectStats has returned, it is closed at most once
\* (no step closes it again or is about to, and it never reopens), and no
\* send on it starts afterwards.
C23_StatCClosedOnceAfterCollector ==
    /\ [](statC = "closed" => pcC = "done")
    /\ [](pcMain = "closeStatC" => statC = "open" /\ pcC = "done")
    /\ [][/\ StatCCloses => pcC = "done" /\ pcC' = "done"
          /\ statC = "closed" => statC' = "closed" /\ ~PublishStarts]_vars

\* done has closed statC and returned nil, and a second call of done has
\* panicked before it reached close(statC)
C23_Witness ==
    /\ statC = "closed"
    /\ pcC = "done"
    /\ pcMain = "panicked"
    /\ doneErr = "nil"

\* Interfaces.UnmarshalJSON has returned or panicked
InterfacesReturned == dPc = "done" /\ dStat = StatTypeInterfaces

\* addresses in its other shape: the string s for the array [s], the array
\* [s] for the string s; anything else as it is
OtherShape(a) ==
    IF a.kind = "string"
    THEN [kind |-> "slice", elems |-> <<[isString |-> TRUE, s |-> a.s]>>]
    ELSE IF a.kind = "slice" /\ Len(a.elems) = 1 /\ a.elems[1].isString
    THEN [kind |-> "string", s |-> a.elems[1].s]
    ELSE a

\* the payload v with the addresses of every interface in their other shape
InOtherShape(v) ==
    [k \in DOMAIN v |-> [v[k] EXCEPT !.Addresses = OtherShape(@)]]

\* the results of decoding the payload with the shapes exchanged
OtherShapeResults ==
    {InterfacesFromMap(InOtherShape(dIn), order, dRecv) :
         order \in Orders(DOMAIN dIn)}

\* the strings of addresses that have two shapes
ShapedStrings ==
    {dIn[k].Addresses.s : k \in {k \in DOMAIN dIn : dIn[k].Addresses.kind = "string"}}
    \cup {dIn[k].Addresses.elems[1].s :
              k \in {k \in DOMAIN dIn : /\ dIn[k].Addresses.kind = "slice"
                                        /\ Len(dIn[k].Addresses.elems) = 1
                                        /\ dIn[k].Addresses.elems[1].isString}}

\* the strings of addresses of the interface value vv, in order
AddressStrings(vv) ==
    IF vv.Addresses.kind = "string" THEN <<vv.Addresses.s>>
    ELSE IF vv.Addresses.kind = "slice"
    THEN [j \in DOMAIN vv.Addresses.elems |-> vv.Addresses.elems[j].s]
    ELSE <<>>

\* the payload v with every addresses field that is the empty string taken
\* out
EmptyAsNone(v) ==
    [k \in DOMAIN v |->
        IF v[k].Addresses = [kind |-> "string", s |-> <<>>]
        THEN [v[k] EXCEPT !.Addresses = [kind |-> "nil"]]
        ELSE v[k]]

\* the claim as it stands: for every string s, the empty one included, the
\* string s and the array [s] decode to the same result
C24_ShapesEquivalent ==
    InterfacesReturned => dRes \in OtherShapeResults

\* C24: for every non-empty string s, addresses given as the string s and
\* as the array [s] decode to the same result (the same list or the same
\* failure); the empty string decodes as an absent addresses field does, to
\* no address, while the array [""] fails the decode; in both shapes a
\* non-empty string is parsed as CIDR and only the address before the "/"
\* is kept.
C24_ShapesEquivalentNonEmpty ==
    InterfacesReturned =>
        /\ <<>> \notin ShapedStrings => dRes \in OtherShapeResults
        /\ dRes \in {InterfacesFromMap(EmptyAsNone(dIn), order, dRecv) :
                         order \in Orders(DOMAIN dIn)}
        /\ DecodedOK(StatTypeInterfaces) =>
               \A j \in DOMAIN dRes.recv :
                   LET vv == dIn[dRes.recv[j].Name]
                   IN  /\ vv.Addresses.kind = "slice" =>
                               /\ Len(dRes.recv[j].Addresses) = Len(vv.Addresses.elems)
                               /\ \A n \in DOMAIN vv.Addresses.elems :
                                      vv.Addresses.elems[n].s # <<>>
                       /\ (vv.Addresses.kind = "string" /\ vv.Addresses.s = <<>>) =>
                               dRes.recv[j].Addresses = <<>>
                       /\ (vv.Addresses.kind = "string" /\ vv.Addresses.s # <<>>) =>
                               Len(dRes.recv[j].Addresses) = 1
                       /\ \A n \in DOMAIN dRes.recv[j].Addresses :
                               /\ dRes.recv[j].Addresses[n] # NilIP
                               /\ dRes.recv[j].Addresses[n] =
                                      ParseIP(SplitFirst(AddressStrings(vv)[n], 47)[1])

\* an interface with addresses "10.0.0.1/8" next to one with addresses ""
\* has been decoded: one address for the first, none for the second
C24_Witness ==
    /\ DecodedOK(StatTypeInterfaces)
    /\ Len(dRes.recv) = 2
    /\ dIn[dRes.recv[1].Name].Addresses = [kind |-> "string", s |-> TextCIDR4]
    /\ dIn[dRes.recv[2].Name].Addresses = [kind |-> "string", s |-> <<>>]
    /\ dRes.recv[1].Addresses = <<ParseIP(<<49, 48, 46, 48, 46, 48, 46, 49>>)>>
    /\ dRes.recv[2].Addresses = <<>>
    /\ dRes \notin OtherShapeResults

\* the results of DPIStats.UnmarshalJSON on the payload dIn over every
\* order in which the two range loops may visit it
DPIResults ==
    {DPIStatsFromMap(dIn, order, dRecv) : order \in DPIOrders(dIn)}

\* C25: DPIStats decoding is deterministic: a payload that decodes gives
\* the same list in the same order whatever order its outer and inner keys
\* are visited in, entries of one IP and one Type with different Categories
\* included.
C25_DPIStatsDeterministic ==
    DecodedOK(StatTypeDPIStats) => DPIResults = {dRes}

\* C26: no payload makes a decoder abort: whatever the JSON types of the
\* fields, an addresses array holding a non-string included, UnmarshalJSON
\* of each of the three Stats returns a value or an error and never panics.
C26_DecoderNeverAborts == dPc = "done" => ~dRes.panic

\* C27: wsUnmarshal is total: for every buffer, the empty one included, it
\* returns nil or an error and never panics.
C27_wsUnmarshalTotal == fpc # "framed" => ~fres.panic

====
